---- MODULE Spec2Model ----
(***************************************************************************)
(* Timed media composition pipeline of video_synthesis:                    *)
(*   - the subtitle windower of SubtitleAnalyzer (core/deepseek1.py and    *)
(*     core/deepseek - 副本.py),                                           *)
(*   - the audio merge and the clip composers of VideoClipper              *)
(*     (core/video_clipper.py and the 备份/8 variant of the same file).    *)
(*                                                                         *)
(* Subtitle times are integers in hundredths of a second, so that the      *)
(* products total_duration * 0.3, 0.5, 0.7, 0.85 of whole-second times are *)
(* exact.  Clip and audio durations are integers in tenths of a second.    *)
(***************************************************************************)
EXTENDS Integers, Sequences, FiniteSets, TLC

VARIABLES
    \* ---- SubtitleAnalyzer._perform_analysis / process_subtitles_by_segment
    subtitles,            \* the parsed subtitle list: records start_time, end_time
    total_duration,       \* max end_time over the subtitles
    time_ranges,          \* segment number -> <<range_start, range_end>>
    segmented_subtitles,  \* segment number -> sequence of subtitle indices
    skip_extract,         \* the "skip_extract" key: tagged subtitle index -> BOOLEAN
    tag_writes,           \* subtitle index -> how often skip_extract was assigned
    w_i,                  \* position of the outer for loop
    w_pc,                 \* "start", "loop" or "done"
    \* ---- VideoClipper: one compose call
    version,              \* which composer runs: "enzh", "complete" (core/),
                          \* "complete_bak", "clip_bak" (备份/8)
    audio_paths,          \* the audio_paths dict: sequence of [type, path] in key order
    start_time,           \* item start, tenths of a second
    end_time,             \* item end, tenths of a second
    fs,                   \* file name -> file on disk
    merge_input,          \* the dict handed to _merge_audio_files
    merge_ret,            \* "not_called", "True" or "False"
    audio_files,          \* the input list of the concat command
    total_audio_duration, \* probed duration of the merged track
    video_duration,       \* end_time - start_time
    freeze_duration,      \* max(0, audio - video)
    temp_video,           \* the file the local temp_video names
    result,               \* "none", "True" or "False"
    c_pc,                 \* control position of the compose call
    \* ---- VideoClipper.process_clips: one batch
    data,                 \* the analysis: category -> sequence of items
    disk,                 \* output path <<category, clean_id>> -> file
    result_clips,         \* the list process_clips returns
    calls,                \* the compose calls made: <<category, index>>
    b_cat,                \* which of the three category loops runs (1..3)
    b_idx,                \* position in the running category loop
    b_pc,                 \* "idle", "loop" or "done"
    \* ---- generate_pip2_sequence
    folders,              \* the sub-folders found: folder -> [has1, has2, d1, d2]
    target_duration,      \* target_duration, tenths of a second
    one_round_duration,   \* summed duration of the first round
    needed_rounds,        \* int(target_duration / one_round_duration) + 1
    round_tiers,          \* the draws of the round just generated: <<tier 1, 2, 3>>
    round_sequence,       \* the clips of the round just generated, <<folder, clip>>
    rounds_done,          \* rounds appended to sequence so far
    sequence_len,         \* len(sequence)
    sequence_duration,    \* summed duration of sequence
    g_pc,                 \* "idle", "list", "first", "count", "more",
                          \* "extend", "returned", "raised"
    \* ---- combine_videos
    variant,              \* "combiner" (video_combiner.py), "processor"
                          \* (video_processor.py)
    side_videos,          \* durations of the side clips, tenths of a second
    main_duration,        \* duration of the main video
    text_settings,        \* [duration, fade_in, fade_out] of the title overlay
    merged_ass,           \* TRUE when a caption track was built
    filter_complex,       \* the filter chain: sequence of filters
    last_bg,              \* the label the next overlay draws on
    current_time,         \* the cursor of the side sequence
    k_i,                  \* position of the side clip loop
    k_pc,                 \* "idle", "base", "side", "title", "caption", "done"
    \* ---- merge_subtitles
    blocks,               \* the SRT blocks: records start, end in milliseconds
    events,               \* the Dialogue lines written, in file order
    s_i,                  \* position of the block loop
    s_pc,                 \* "idle", "loop" or "done"
    \* ---- SubtitleAnalyzer: analysis, verify_timestamp, save_analysis_results
    analyzer,             \* "deepseek" (core/deepseek.py), "deepseek1", "copy"
                          \* (core/deepseek - 副本.py)
    srt,                  \* the transcript: records start_time, end_time, text
    content_json,         \* the items the analysis service returned, per category
    analysis_result,      \* what process_subtitle_file returns
    saved,                \* the summary written by save_analysis_results
    y_pc,                 \* "idle", "analyze", "verify", "save", "done"
    \* ---- run.py, main(), get_random_video, load_history, save_history
    pool,                 \* the sub-folders of pip1: folder -> basenames of its videos
    history_file,         \* logs/video_history.json: [st, folders, videos]
    history,              \* process -> the dict load_history returned to it
    picked,               \* process -> the folders of its run: name, subtitle, synth
    runs,                 \* process -> runs of run.py started
    h_pc,                 \* process -> <<phase, step>>
    \* ---- two _create_enzh_version calls on one source video, side by side
    temp_frame,           \* temp_first_frame.png: 0, or the job whose frame it holds
    temp_blur_video,      \* temp_blur.mp4: <<0, 0>>, or <<job that wrote it, job of its frame>>
    outputs,              \* job -> its output_path, as temp_blur_video
    job_rc,               \* job -> result.returncode of its last ffmpeg run
    job_ret,              \* job -> "none", "True" or "False"
    job_pc                \* job -> "off", "frame", "frame_check", "blur", "blur_check",
                          \*        "mux", "cleanup" or "done"

wvars == <<subtitles, total_duration, time_ranges, segmented_subtitles,
           skip_extract, tag_writes, w_i, w_pc>>

cvars == <<version, audio_paths, start_time, end_time, fs, merge_input,
           merge_ret, audio_files, total_audio_duration, video_duration,
           freeze_duration, temp_video, result, c_pc>>

bvars == <<data, disk, result_clips, calls, b_cat, b_idx, b_pc>>

gvars == <<folders, target_duration, one_round_duration, needed_rounds,
           round_tiers, round_sequence, rounds_done, sequence_len,
           sequence_duration, g_pc>>

kvars == <<variant, side_videos, main_duration, text_settings, merged_ass,
           filter_complex, last_bg, current_time, k_i, k_pc>>

svars == <<blocks, events, s_i, s_pc>>

yvars == <<analyzer, srt, content_json, analysis_result, saved, y_pc>>

hvars == <<pool, history_file, history, picked, runs, h_pc>>

pvars == <<temp_frame, temp_blur_video, outputs, job_rc, job_ret, job_pc>>

vars == <<wvars, cvars, bvars, gvars, kvars, svars, yvars, hvars, pvars>>

Max2(a, b) == IF a >= b THEN a ELSE b
Min2(a, b) == IF a <= b THEN a ELSE b

\* The components that are not running.
BatchIdle ==
    /\ data = << >>
    /\ disk = << >>
    /\ result_clips = << >>
    /\ calls = << >>
    /\ b_cat = 0
    /\ b_idx = 0
    /\ b_pc = "idle"

Pip2Idle ==
    /\ folders = << >>
    /\ target_duration = 0
    /\ one_round_duration = 0
    /\ needed_rounds = 0
    /\ round_tiers = << >>
    /\ round_sequence = << >>
    /\ rounds_done = 0
    /\ sequence_len = 0
    /\ sequence_duration = 0
    /\ g_pc = "idle"

CombineIdle ==
    /\ variant = "none"
    /\ side_videos = << >>
    /\ main_duration = 0
    /\ text_settings = << >>
    /\ merged_ass = FALSE
    /\ filter_complex = << >>
    /\ last_bg = "none"
    /\ current_time = 0
    /\ k_i = 0
    /\ k_pc = "idle"

CaptionsIdle ==
    /\ blocks = << >>
    /\ events = << >>
    /\ s_i = 0
    /\ s_pc = "idle"

VerifyIdle ==
    /\ analyzer = "none"
    /\ srt = << >>
    /\ content_json = << >>
    /\ analysis_result = << >>
    /\ saved = << >>
    /\ y_pc = "idle"

HistoryIdle ==
    /\ pool = << >>
    /\ history_file = << >>
    /\ history = << >>
    /\ picked = << >>
    /\ runs = << >>
    /\ h_pc = << >>

JobsIdle ==
    /\ temp_frame = 0
    /\ temp_blur_video = <<0, 0>>
    /\ outputs = << >>
    /\ job_rc = << >>
    /\ job_ret = << >>
    /\ job_pc = << >>

(***************************************************************************)
(* Bounds of the windower inputs: subtitle lines start on a whole second   *)
(* in 0..MaxStartSec and last 1..MaxLineSec seconds.                       *)
(***************************************************************************)
MaxStartSec == 59
MaxLineSec == 2

Lines ==
    { [start_time |-> 100 * s, end_time |-> 100 * (s + d)] :
        s \in 0..MaxStartSec, d \in 1..MaxLineSec }

\* The 60 s transcript of the end-to-end scenario: lines starting at
\* 10, 20, 35, 45 and 50 s, the last one ending at 60 s.
Scenario60 ==
    << [start_time |-> 1000, end_time |-> 1200],
       [start_time |-> 2000, end_time |-> 2200],
       [start_time |-> 3500, end_time |-> 3700],
       [start_time |-> 4500, end_time |-> 4700],
       [start_time |-> 5000, end_time |-> 6000] >>

Transcripts ==
    { <<a>> : a \in Lines } \cup { <<a, b>> : a \in Lines, b \in Lines }
        \cup { Scenario60 }

Segments == 1..6

\* total_duration = max(time_to_seconds(s["end_time"]) for s in subtitles)
TotalDuration(subs) ==
    CHOOSE m \in { subs[i].end_time : i \in 1..Len(subs) } :
        \A i \in 1..Len(subs) : subs[i].end_time <= m

\* A plausible slip: segment_4/segment_5 boundary at 0.8 instead of 0.7.
TimeRangesBoundary80(T) ==
    << <<700, 1500>>,
       <<1500, (T * 30) \div 100>>,
       <<(T * 30) \div 100, (T * 50) \div 100>>,
       <<(T * 50) \div 100, (T * 80) \div 100>>,
       <<(T * 80) \div 100, (T * 85) \div 100>>,
       <<(T * 85) \div 100, T - 700>> >>

\* A plausible slip: the last segment does not exclude the last 7 seconds.
TimeRangesNoOutro(T) ==
    << <<700, 1500>>,
       <<1500, (T * 30) \div 100>>,
       <<(T * 30) \div 100, (T * 50) \div 100>>,
       <<(T * 50) \div 100, (T * 70) \div 100>>,
       <<(T * 70) \div 100, (T * 85) \div 100>>,
       <<(T * 85) \div 100, T>> >>

\* time_ranges = {"segment_1": (7, 15), "segment_2": (15, total_duration * 0.3), ...}
TimeRanges(T) ==
    << <<700, 1500>>,
       <<1500, (T * 30) \div 100>>,
       <<(T * 30) \div 100, (T * 50) \div 100>>,
       <<(T * 50) \div 100, (T * 70) \div 100>>,
       <<(T * 70) \div 100, (T * 85) \div 100>>,
       <<(T * 85) \div 100, T - 700>> >>

\* A plausible slip: the upper end of a range is taken inclusive.
InRangeClosed(r, t) == r[1] <= t /\ t <= r[2]

\* if range_start <= start < range_end
InRange(r, t) == r[1] <= t /\ t < r[2]

RECURSIVE FirstMatchFrom(_, _, _)
FirstMatchFrom(k, start, ranges) ==
    IF k > 6 THEN {}
    ELSE IF InRange(ranges[k], start) THEN {k}
    ELSE FirstMatchFrom(k + 1, start, ranges)

\* A plausible slip: the inner loop without its break.
SegmentsOfNoBreak(start, ranges) ==
    { k \in Segments : InRange(ranges[k], start) }

\* The segments whose list the inner for loop appends the subtitle to:
\* it walks time_ranges in insertion order and breaks at the first match.
SegmentsOf(start, ranges) == FirstMatchFrom(1, start, ranges)

\* A plausible slip: the outro test is dropped.
SkipExtractNoOutro(seg, start, end, T) ==
    IF seg = 1 /\ (start < 700 \/ end > 1500) THEN TRUE ELSE FALSE

\* if segment_name == "segment_1" and (start < 7 or end > 15): True
\* elif end > (total_duration - 7): True   else: False
SkipExtract(seg, start, end, T) ==
    IF seg = 1 /\ (start < 700 \/ end > 1500) THEN TRUE
    ELSE IF end > T - 700 THEN TRUE
    ELSE FALSE

\* No compose call is running.
ComposerIdle ==
    /\ version = "none"
    /\ audio_paths = << >>
    /\ start_time = 0
    /\ end_time = 0
    /\ fs = << >>
    /\ merge_input = << >>
    /\ merge_ret = "not_called"
    /\ audio_files = << >>
    /\ total_audio_duration = 0
    /\ video_duration = 0
    /\ freeze_duration = 0
    /\ temp_video = "none"
    /\ result = "none"
    /\ c_pc = "idle"

InitWindower ==
    /\ subtitles \in Transcripts
    /\ total_duration = 0
    /\ time_ranges = << >>
    /\ segmented_subtitles = [k \in Segments |-> << >>]
    /\ skip_extract = [i \in {} |-> FALSE]
    /\ tag_writes = [i \in 1..Len(subtitles) |-> 0]
    /\ w_i = 1
    /\ w_pc = "start"
    /\ BatchIdle /\ Pip2Idle /\ CombineIdle /\ CaptionsIdle
    /\ ComposerIdle
    /\ VerifyIdle
    /\ HistoryIdle
    /\ JobsIdle

\* Lines 193-207: total duration, the six ranges, the empty lists.
ComputeRanges ==
    /\ w_pc = "start"
    /\ total_duration' = TotalDuration(subtitles)
    /\ time_ranges' = TimeRanges(TotalDuration(subtitles))
    /\ w_pc' = "loop"
    /\ UNCHANGED <<subtitles, segmented_subtitles, skip_extract, tag_writes, w_i>>
    /\ UNCHANGED <<cvars, bvars, gvars, kvars, svars, yvars, hvars, pvars>>

\* One iteration of "for subtitle in subtitles", its inner loop included.
AssignLine ==
    /\ w_pc = "loop"
    /\ w_i <= Len(subtitles)
    /\ LET sub == subtitles[w_i]
           hit == SegmentsOf(sub.start_time, time_ranges)
           last == CHOOSE k \in hit : \A j \in hit : j <= k
       IN /\ segmented_subtitles' =
                [k \in Segments |->
                    IF k \in hit THEN Append(segmented_subtitles[k], w_i)
                    ELSE segmented_subtitles[k]]
          /\ skip_extract' =
                IF hit = {} THEN skip_extract
                ELSE [j \in DOMAIN skip_extract \cup {w_i} |->
                        IF j = w_i
                        THEN SkipExtract(last, sub.start_time, sub.end_time,
                                         total_duration)
                        ELSE skip_extract[j]]
          /\ tag_writes' = [tag_writes EXCEPT ![w_i] = @ + Cardinality(hit)]
    /\ w_i' = w_i + 1
    /\ w_pc' = IF w_i = Len(subtitles) THEN "done" ELSE "loop"
    /\ UNCHANGED <<subtitles, total_duration, time_ranges>>
    /\ UNCHANGED <<cvars, bvars, gvars, kvars, svars, yvars, hvars, pvars>>

NextWindower == ComputeRanges \/ AssignLine

SpecWindower == InitWindower /\ [][NextWindower]_vars

(***************************************************************************)
(* VideoClipper: one compose call.                                         *)
(*                                                                         *)
(* Four composers are modelled:                                            *)
(*   "enzh"         core/video_clipper.py  _create_enzh_version            *)
(*   "complete"     core/video_clipper.py  _create_complete_version        *)
(*   "complete_bak" 备份/8 video_clipper.py _create_complete_version       *)
(*   "clip_bak"     备份/8 video_clipper.py _clip_video                    *)
(* The two of core/ replace the segment by a blurred hold of the frame at  *)
(* start_time; "complete_bak" plays the segment and appends a blurred hold *)
(* of a frame of its last second; "clip_bak" cuts the segment with a tpad  *)
(* filter.                                                                 *)
(*                                                                         *)
(* Every ffmpeg invocation is one step with an outcome chosen by the       *)
(* environment.  Exit status 0 is taken to mean that the output was        *)
(* written, except in the steps whose code tests for a missing or empty    *)
(* output itself.                                                          *)
(***************************************************************************)
Versions == {"enzh", "complete", "complete_bak", "clip_bak"}
PureFreeze == {"enzh", "complete"}
AudioTypes == {"en", "zh", "notes"}

\* path = f"{base_path}_{audio_type}.mp3"
PathOf(t) ==
    CASE t = "en" -> "en.mp3"
      [] t = "zh" -> "zh.mp3"
      [] t = "notes" -> "notes.mp3"

AudioNames == {"en.mp3", "zh.mp3", "notes.mp3"}
TempNames ==
    {"temp_audio", "temp_mp4", "final_mp4", "concat_txt", "temp_frame",
     "temp_blur"}
FileNames == AudioNames \cup TempNames \cup {"output"}

\* A file: st is "none" (absent), "empty" (zero bytes), "partial" (left by a
\* failed write) or "data"; v is its video stream as a sequence of
\* [kind, dur] segments, a the audio inputs it was built from in playing
\* order, ad its audio duration.
NoFile == [st |-> "none", v |-> << >>, a |-> << >>, ad |-> 0]
EmptyFile == [st |-> "empty", v |-> << >>, a |-> << >>, ad |-> 0]
PartialFile == [st |-> "partial", v |-> << >>, a |-> << >>, ad |-> 0]
DataFile(v, a, ad) == [st |-> "data", v |-> v, a |-> a, ad |-> ad]

\* Probed durations of the input audio files and durations of the source
\* segment, tenths of a second.
AudioDurs == {0, 13, 26}
SegDurs == {30, 39}

\* The choices for one input audio file: -2 absent, -1 zero bytes,
\* otherwise a non-empty file of that probed duration.
AudioChoices == {-2, -1} \cup AudioDurs
AudioFile(t, c) ==
    IF c = -2 THEN NoFile
    ELSE IF c = -1 THEN EmptyFile
    ELSE DataFile(<< >>, <<PathOf(t)>>, c)

\* The dicts: every key order of every subset of the audio types.
KeyOrders ==
    { s \in UNION { [1..n -> AudioTypes] : n \in 0..3 } :
        \A i \in 1..Len(s) : \A j \in 1..Len(s) : i # j => s[i] # s[j] }
AudioMaps ==
    { [i \in 1..Len(s) |-> [type |-> s[i], path |-> PathOf(s[i])]] :
        s \in KeyOrders }

\* audio_type in audio_paths, audio_paths[audio_type]
HasKey(paths, t) == \E i \in 1..Len(paths) : paths[i].type = t
Lookup(paths, t) ==
    paths[CHOOSE i \in 1..Len(paths) : paths[i].type = t].path

\* A plausible slip: the test for the file is left out.
ExistsAlways(f) == TRUE

\* os.path.exists, os.path.getsize(...) == 0, os.remove
Exists(f) == f.st # "none"
Size0(f) == f.st = "empty"
Remove(files, names) ==
    [n \in DOMAIN files |-> IF n \in names THEN NoFile ELSE files[n]]

\* _get_audio_duration: ffprobe's duration, 0.0 when probing fails.
ProbeDuration(f) == IF f.st = "data" THEN f.ad ELSE 0

\* The outcomes of one ffmpeg run: "ok" (status 0, output written),
\* "error" (status # 0, nothing written), "partial" (status # 0, a partial
\* output left), "nofile" (status 0, no output), "empty" (status 0, a
\* zero-byte output).
FfmpegOutcomes == {"ok", "error", "partial", "nofile", "empty"}
FfmpegPlain == {"ok", "error", "partial"}
FfmpegFailing == {"error", "partial"}
Rc0(o) == o \in {"ok", "nofile", "empty"}
Written(old, o, content) ==
    CASE o = "ok" -> content
      [] o = "empty" -> EmptyFile
      [] o = "partial" -> PartialFile
      [] OTHER -> old

RECURSIVE SumDur(_, _)
SumDur(names, files) ==
    IF names = << >> THEN 0
    ELSE files[Head(names)].ad + SumDur(Tail(names), files)

\* audio_sequence = ['en', 'zh'] (core/), ['en', 'zh', 'notes'] (备份/8)
AudioSequence(ver) ==
    IF ver \in PureFreeze THEN <<"en", "zh">> ELSE <<"en", "zh", "notes">>

\* A plausible slip: a role that fails a test is skipped ("continue").
RECURSIVE ValidateSkipFrom(_, _, _, _, _)
ValidateSkipFrom(k, seq, paths, files, acc) ==
    IF k > Len(seq) THEN [ok |-> acc # << >>, files |-> acc]
    ELSE IF \/ ~HasKey(paths, seq[k])
            \/ ~Exists(files[Lookup(paths, seq[k])])
            \/ Size0(files[Lookup(paths, seq[k])])
         THEN ValidateSkipFrom(k + 1, seq, paths, files, acc)
    ELSE ValidateSkipFrom(k + 1, seq, paths, files,
                          Append(acc, Lookup(paths, seq[k])))
ValidatedAudioSkipping(seq, paths, files) ==
    ValidateSkipFrom(1, seq, paths, files, << >>)

\* The validation loop of _merge_audio_files: the first role of the
\* sequence that is no key, whose file does not exist or is empty ends it.
RECURSIVE ValidateFrom(_, _, _, _, _)
ValidateFrom(k, seq, paths, files, acc) ==
    IF k > Len(seq) THEN [ok |-> TRUE, files |-> acc]
    ELSE IF ~HasKey(paths, seq[k]) THEN [ok |-> FALSE, files |-> acc]
    ELSE IF ~Exists(files[Lookup(paths, seq[k])])
         THEN [ok |-> FALSE, files |-> acc]
    ELSE IF Size0(files[Lookup(paths, seq[k])])
         THEN [ok |-> FALSE, files |-> acc]
    ELSE ValidateFrom(k + 1, seq, paths, files,
                      Append(acc, Lookup(paths, seq[k])))

\* A plausible slip: the files are taken in the order of the dict.
ValidatedAudioMapOrder(seq, paths, files) ==
    [ok |-> ValidateFrom(1, seq, paths, files, << >>).ok,
     files |-> [i \in 1..Len(paths) |-> paths[i].path]]

ValidatedAudio(seq, paths, files) == ValidateFrom(1, seq, paths, files, << >>)

\* A plausible slip: the difference is not clamped at 0.
FreezeDurationNoClamp(audio, video) == audio - video

\* freeze_duration = max(0, total_audio_duration - video_duration)
FreezeDuration(audio, video) == Max2(0, audio - video)

Motion(d) == [kind |-> "motion", dur |-> d]
Freeze(d) == [kind |-> "freeze", dur |-> d]
Frame == DataFile(<<[kind |-> "frame", dur |-> 0]>>, << >>, 0)

\* A plausible slip: the concat list names the hold before the segment.
ConcatListHoldFirst(seg, hold) == <<hold, seg>>

\* f.write(f"file '{temp_video_abs}'\n"); f.write(f"file '{blur_video_abs}'\n")
ConcatList(seg, hold) == <<seg, hold>>

RECURSIVE ConcatStreams(_, _)
ConcatStreams(names, files) ==
    IF names = << >> THEN << >>
    ELSE files[Head(names)].v \o ConcatStreams(Tail(names), files)

\* A plausible slip: the hold is rendered for the padding only.
HoldDurationPadding(ver, audio, freeze) == freeze

\* The "-t" of the still video: the whole audio (core/), the padding (备份/8).
HoldDuration(ver, audio, freeze) ==
    IF ver \in PureFreeze THEN audio ELSE freeze

WindowerIdle ==
    /\ subtitles = << >>
    /\ total_duration = 0
    /\ time_ranges = << >>
    /\ segmented_subtitles = << >>
    /\ skip_extract = << >>
    /\ tag_writes = << >>
    /\ w_i = 0
    /\ w_pc = "idle"

InitCompose ==
    /\ WindowerIdle
    /\ BatchIdle /\ Pip2Idle /\ CombineIdle /\ CaptionsIdle
    /\ VerifyIdle
    /\ HistoryIdle
    /\ JobsIdle
    /\ version \in Versions
    /\ audio_paths \in AudioMaps
    /\ version = "clip_bak" => Len(audio_paths) = 1
    /\ start_time = 100
    /\ \E d \in SegDurs : end_time = start_time + d
    /\ \E c \in [AudioTypes -> AudioChoices] :
          /\ \A t \in AudioTypes : ~HasKey(audio_paths, t) => c[t] = -2
          /\ fs = [n \in FileNames |->
                      IF n \in AudioNames
                      THEN AudioFile(CHOOSE t \in AudioTypes : PathOf(t) = n,
                                     c[CHOOSE t \in AudioTypes : PathOf(t) = n])
                      ELSE NoFile]
    /\ merge_input = IF version = "enzh" THEN << >> ELSE audio_paths
    /\ merge_ret = "not_called"
    /\ audio_files = << >>
    /\ total_audio_duration = 0
    /\ video_duration = 0
    /\ freeze_duration = 0
    /\ temp_video = "none"
    /\ result = "none"
    /\ c_pc = CASE version = "enzh" -> "check"
                [] version = "clip_bak" -> "clip_pad"
                [] OTHER -> "merge"

\* return False / return True of the composer
Return(r) == result' = r /\ c_pc' = "done"
Goto(pc) == result' = result /\ c_pc' = pc

\* _create_enzh_version, step 1: the required audio types.
CheckRequiredAudio ==
    /\ c_pc = "check"
    /\ IF \A t \in {"en", "zh"} :
            HasKey(audio_paths, t) /\ Exists(fs[Lookup(audio_paths, t)])
       THEN /\ merge_input' =
                 << [type |-> "en", path |-> Lookup(audio_paths, "en")],
                    [type |-> "zh", path |-> Lookup(audio_paths, "zh")] >>
            /\ Goto("merge")
       ELSE /\ merge_input' = merge_input
            /\ Return("False")
    /\ UNCHANGED <<version, audio_paths, start_time, end_time, fs, merge_ret,
                   audio_files, total_audio_duration, video_duration,
                   freeze_duration, temp_video>>
    /\ UNCHANGED <<wvars, bvars, gvars, kvars, svars, yvars, hvars, pvars>>

\* _merge_audio_files and the probe of the merged track.
MergeAudioFiles ==
    /\ c_pc = "merge"
    /\ LET val == ValidatedAudio(AudioSequence(version), merge_input, fs)
       IN IF ~val.ok
          THEN /\ merge_ret' = "False"
               /\ Return("False")
               /\ UNCHANGED <<fs, audio_files, total_audio_duration>>
          ELSE \E o \in FfmpegOutcomes :
                  LET merged == DataFile(<< >>, val.files, SumDur(val.files, fs))
                      fs1 == [fs EXCEPT !["temp_audio"] = Written(@, o, merged)]
                      ret == /\ Rc0(o)
                             /\ Exists(fs1["temp_audio"])
                             /\ ~Size0(fs1["temp_audio"])
                      dur == ProbeDuration(fs1["temp_audio"])
                  IN /\ audio_files' = val.files
                     /\ merge_ret' = IF ret THEN "True" ELSE "False"
                     /\ IF ~ret
                        THEN /\ fs' = fs1
                             /\ total_audio_duration' = total_audio_duration
                             /\ Return("False")
                        ELSE IF dur = 0
                        THEN /\ fs' = Remove(fs1, {"temp_audio"})
                             /\ total_audio_duration' = 0
                             /\ Return("False")
                        ELSE /\ fs' = fs1
                             /\ total_audio_duration' = dur
                             /\ Goto(IF version \in PureFreeze
                                     THEN "frame" ELSE "clip")
    /\ UNCHANGED <<version, audio_paths, start_time, end_time, merge_input,
                   video_duration, freeze_duration, temp_video>>
    /\ UNCHANGED <<wvars, bvars, gvars, kvars, svars, yvars, hvars, pvars>>

\* 备份/8 _create_complete_version, steps 3-5: cut the segment.
ClipSegment ==
    /\ c_pc = "clip"
    /\ video_duration' = end_time - start_time
    /\ freeze_duration' =
          FreezeDuration(total_audio_duration, end_time - start_time)
    /\ temp_video' = "temp_mp4"
    /\ \E o \in FfmpegPlain :
          /\ fs' = [fs EXCEPT !["temp_mp4"] =
                       Written(@, o, DataFile(<<Motion(end_time - start_time)>>,
                                              << >>, 0))]
          /\ IF ~Rc0(o) THEN Return("False")
             ELSE Goto(IF freeze_duration' > 0 THEN "frame" ELSE "mux")
    /\ UNCHANGED <<version, audio_paths, start_time, end_time, merge_input,
                   merge_ret, audio_files, total_audio_duration>>
    /\ UNCHANGED <<wvars, bvars, gvars, kvars, svars, yvars, hvars, pvars>>

\* _create_blurred_freeze_video, step 1: the blurred frame.
ExtractFrame ==
    /\ c_pc = "frame"
    /\ \E o \in FfmpegOutcomes :
          /\ (version \notin PureFreeze /\ fs[temp_video].st # "data")
                => o \in FfmpegFailing
          /\ LET fs1 == [fs EXCEPT !["temp_frame"] = Written(@, o, Frame)]
             IN /\ fs' = fs1
                /\ IF ~Rc0(o) \/ ~Exists(fs1["temp_frame"])
                   THEN Return("False")
                   ELSE Goto("hold")
    /\ UNCHANGED <<version, audio_paths, start_time, end_time, merge_input,
                   merge_ret, audio_files, total_audio_duration,
                   video_duration, freeze_duration, temp_video>>
    /\ UNCHANGED <<wvars, bvars, gvars, kvars, svars, yvars, hvars, pvars>>

\* _create_blurred_freeze_video, step 2: the still video of the frame.
MakeFreezeVideo ==
    /\ c_pc = "hold"
    /\ \E o \in FfmpegOutcomes :
          /\ fs["temp_frame"].st # "data" => o \in FfmpegFailing
          /\ LET hold == DataFile(
                            <<Freeze(HoldDuration(version, total_audio_duration,
                                                  freeze_duration))>>,
                            << >>, 0)
                 fs1 == [fs EXCEPT !["temp_blur"] = Written(@, o, hold)]
                 fs2 == Remove(fs1, {"temp_frame"})
             IN /\ fs' = fs2
                /\ IF \/ ~Rc0(o)
                      \/ ~Exists(fs2["temp_blur"])
                      \/ Size0(fs2["temp_blur"])
                   THEN Return("False")
                   ELSE Goto(IF version \in PureFreeze THEN "mux" ELSE "concat")
    /\ UNCHANGED <<version, audio_paths, start_time, end_time, merge_input,
                   merge_ret, audio_files, total_audio_duration,
                   video_duration, freeze_duration, temp_video>>
    /\ UNCHANGED <<wvars, bvars, gvars, kvars, svars, yvars, hvars, pvars>>

\* 备份/8 _create_complete_version, step 7: segment and hold are joined.
ConcatVideos ==
    /\ c_pc = "concat"
    /\ \E o \in FfmpegPlain :
          /\ (fs[temp_video].st # "data" \/ fs["temp_blur"].st # "data")
                => o \in FfmpegFailing
          /\ LET list == ConcatList(temp_video, "temp_blur")
                 fs1 == [fs EXCEPT !["concat_txt"] =
                            DataFile(<< >>, << >>, 0)]
                 joined == DataFile(ConcatStreams(list, fs1), << >>, 0)
                 fs2 == [fs1 EXCEPT !["final_mp4"] = Written(@, o, joined)]
                 fs3 == Remove(fs2, {temp_video})
                 fs4 == Remove(fs3, {"temp_blur", "concat_txt"})
             IN /\ fs' = fs4
                /\ temp_video' = "final_mp4"
                /\ IF ~Rc0(o) THEN Return("False") ELSE Goto("mux")
    /\ UNCHANGED <<version, audio_paths, start_time, end_time, merge_input,
                   merge_ret, audio_files, total_audio_duration,
                   video_duration, freeze_duration>>
    /\ UNCHANGED <<wvars, bvars, gvars, kvars, svars, yvars, hvars, pvars>>

\* The last step of the three composers: the video gets the merged audio,
\* the temporary files are removed.
MuxAudio ==
    /\ c_pc = "mux"
    /\ LET vin == IF version \in PureFreeze THEN "temp_blur" ELSE temp_video
       IN \E o \in FfmpegPlain :
             /\ (fs[vin].st # "data" \/ fs["temp_audio"].st # "data")
                   => o \in FfmpegFailing
             /\ LET out == DataFile(fs[vin].v, fs["temp_audio"].a,
                                    fs["temp_audio"].ad)
                    fs1 == [fs EXCEPT !["output"] = Written(@, o, out)]
                IN fs' = Remove(fs1, {vin, "temp_audio"})
             /\ Return(IF Rc0(o) THEN "True" ELSE "False")
    /\ UNCHANGED <<version, audio_paths, start_time, end_time, merge_input,
                   merge_ret, audio_files, total_audio_duration,
                   video_duration, freeze_duration, temp_video>>
    /\ UNCHANGED <<wvars, bvars, gvars, kvars, svars, yvars, hvars, pvars>>

\* 备份/8 _clip_video, steps 1-4: probe the audio, cut the segment.  The
\* command gives "-ss" and "-t video_duration" as output options, which
\* ffmpeg applies after the tpad filter: the file holds the segment only.
ClipVideoPadded ==
    /\ c_pc = "clip_pad"
    /\ LET audio_path == audio_paths[1].path
           audio_duration == ProbeDuration(fs[audio_path])
           vd == end_time - start_time
           fd == FreezeDuration(audio_duration, vd)
           padded == DataFile(<<Motion(vd)>>, << >>, 0)
       IN IF audio_duration = 0
          THEN /\ Return("False")
               /\ UNCHANGED <<fs, total_audio_duration, video_duration,
                              freeze_duration, temp_video>>
          ELSE /\ total_audio_duration' = audio_duration
               /\ video_duration' = vd
               /\ freeze_duration' = fd
               /\ temp_video' = "temp_mp4"
               /\ \E o \in FfmpegPlain :
                     /\ fs' = [fs EXCEPT !["temp_mp4"] = Written(@, o, padded)]
                     /\ IF ~Rc0(o) THEN Return("False") ELSE Goto("clip_mux")
    /\ UNCHANGED <<version, audio_paths, start_time, end_time, merge_input,
                   merge_ret, audio_files>>
    /\ UNCHANGED <<wvars, bvars, gvars, kvars, svars, yvars, hvars, pvars>>

\* 备份/8 _clip_video, steps 5-6: mux with the audio, remove the temp video.
ClipVideoMux ==
    /\ c_pc = "clip_mux"
    /\ LET audio_path == audio_paths[1].path
       IN \E o \in FfmpegPlain :
             /\ fs["temp_mp4"].st # "data" => o \in FfmpegFailing
             /\ LET out == DataFile(fs["temp_mp4"].v, fs[audio_path].a,
                                    fs[audio_path].ad)
                    fs1 == [fs EXCEPT !["output"] = Written(@, o, out)]
                IN IF ~Rc0(o)
                   THEN fs' = fs1 /\ Return("False")
                   ELSE fs' = Remove(fs1, {"temp_mp4"}) /\ Return("True")
    /\ UNCHANGED <<version, audio_paths, start_time, end_time, merge_input,
                   merge_ret, audio_files, total_audio_duration,
                   video_duration, freeze_duration, temp_video>>
    /\ UNCHANGED <<wvars, bvars, gvars, kvars, svars, yvars, hvars, pvars>>

NextCompose ==
    \/ CheckRequiredAudio
    \/ MergeAudioFiles
    \/ ClipSegment
    \/ ExtractFrame
    \/ MakeFreezeVideo
    \/ ConcatVideos
    \/ MuxAudio
    \/ ClipVideoPadded
    \/ ClipVideoMux

SpecCompose == InitCompose /\ [][NextCompose]_vars

(***************************************************************************)
(* VideoClipper.process_clips: one batch over the three categories.        *)
(*                                                                         *)
(* An item text is a sequence of characters.  A compose call is one step   *)
(* here: it returns True with the output written, or False with the output *)
(* path untouched, or False after the last ffmpeg run ("-y") has opened    *)
(* the output path and left a partial file.                                *)
(***************************************************************************)
Categories == <<"vocabulary", "phrases", "expressions">>

Texts == { <<"a">>, <<"a", " ">>, <<"a", "?">>, <<"/", "a">>, <<"/">> }

\* re.sub(r'[?!]', '_', ...), replace(' ', '_'), re.sub(r'[<>:"/\\|?*]', '', ...)
RECURSIVE CleanChars(_)
CleanChars(t) ==
    IF t = << >> THEN << >>
    ELSE IF Head(t) \in {"?", "!", " "} THEN <<"_">> \o CleanChars(Tail(t))
    ELSE IF Head(t) \in {"<", ">", ":", "/", "|", "*"} THEN CleanChars(Tail(t))
    ELSE <<Head(t)>> \o CleanChars(Tail(t))

\* _clean_filename
CleanFilename(t) ==
    IF CleanChars(t) = << >> THEN <<"unnamed">> ELSE CleanChars(t)

\* os.path.join(self.output_dir, category, clean_id, f"{clean_id}_enzh.mp4")
OutputPath(cat, t) == <<Categories[cat], CleanFilename(t)>>

\* An item of the analysis: keys tells whether start_time, end_time and text
\* are all present, audio whether _get_audio_paths finds any file.
Items == [text : Texts, keys : BOOLEAN, audio : BOOLEAN]

\* The analyses: at most one item in every category, or two items in one.
Analyses ==
    { d \in [1..3 -> { << >> } \cup { <<x>> : x \in Items }] : TRUE }
    \cup
    { [c \in 1..3 |-> IF c = k THEN <<x, y>> ELSE << >>] :
        k \in 1..3, x \in Items, y \in Items }

AllPaths == { OutputPath(c, t) : c \in 1..3, t \in Texts }

\* A file at an output path: st is "none", "data" or "partial"; by names the
\* item <<category, index>> whose compose call wrote it, <<0, 0>> stands for
\* a file from before the batch.
Absent == [st |-> "none", by |-> <<0, 0>>]
OldFile == [st |-> "data", by |-> <<0, 0>>]

ComposeOutcomes == {"ok", "fail", "fail_partial"}

\* The first position at or after <<cat, idx>> that holds an item; <<4, 1>>
\* when the three loops are over.
RECURSIVE Position(_, _, _)
Position(d, cat, idx) ==
    IF cat > 3 THEN <<4, 1>>
    ELSE IF idx <= Len(d[cat]) THEN <<cat, idx>>
    ELSE Position(d, cat + 1, 1)

InitBatch ==
    /\ WindowerIdle /\ ComposerIdle
    /\ Pip2Idle /\ CombineIdle /\ CaptionsIdle
    /\ VerifyIdle
    /\ HistoryIdle
    /\ JobsIdle
    /\ data \in Analyses
    /\ \E old \in SUBSET AllPaths :
          /\ Cardinality(old) <= 1
          /\ \A q \in old :
                \E c \in 1..3 : \E n \in 1..Len(data[c]) :
                    q = OutputPath(c, data[c][n].text)
          /\ disk = [q \in AllPaths |-> IF q \in old THEN OldFile ELSE Absent]
    /\ result_clips = << >>
    /\ calls = << >>
    /\ b_cat = Position(data, 1, 1)[1]
    /\ b_idx = Position(data, 1, 1)[2]
    /\ b_pc = "loop"

\* One pass of a category loop of process_clips.
ProcessItem ==
    /\ b_pc = "loop"
    /\ b_cat <= 3
    /\ LET item == data[b_cat][b_idx]
           path == OutputPath(b_cat, item.text)
           me == <<b_cat, b_idx>>
       IN IF ~item.keys \/ ~item.audio
          THEN UNCHANGED <<disk, result_clips, calls>>
          ELSE \E o \in ComposeOutcomes :
                  /\ calls' = Append(calls, [item |-> me, ret |-> (o = "ok")])
                  /\ disk' =
                        CASE o = "ok" ->
                               [disk EXCEPT ![path] = [st |-> "data", by |-> me]]
                          [] o = "fail_partial" ->
                               [disk EXCEPT ![path] = [st |-> "partial", by |-> me]]
                          [] OTHER -> disk
                  /\ result_clips' =
                        IF o = "ok" THEN Append(result_clips, path)
                        ELSE result_clips
    /\ b_cat' = Position(data, b_cat, b_idx + 1)[1]
    /\ b_idx' = Position(data, b_cat, b_idx + 1)[2]
    /\ UNCHANGED <<data, b_pc>>
    /\ UNCHANGED <<wvars, cvars, gvars, kvars, svars, yvars, hvars, pvars>>

\* process_clips accumulates result_clips and nothing else: it keeps no
\* list of the items whose compose call failed.
FailureList == << >>

\* return result_clips
BatchReturn ==
    /\ b_pc = "loop"
    /\ b_cat > 3
    /\ b_pc' = "done"
    /\ UNCHANGED <<data, disk, result_clips, calls, b_cat, b_idx>>
    /\ UNCHANGED <<wvars, cvars, gvars, kvars, svars, yvars, hvars, pvars>>

NextBatch == ProcessItem \/ BatchReturn

SpecBatch == InitBatch /\ [][NextBatch]_vars

(***************************************************************************)
(* generate_pip2_sequence (core/video_processor.py): the side sequence.    *)
(*                                                                         *)
(* A folder is a record [has1, has2, d1, d2]: whether 1.mp4 and 2.mp4      *)
(* exist and what get_video_duration returns for them.  Durations are      *)
(* whole seconds, so that the float quotient target_duration /             *)
(* one_round_duration is exact.  Every random draw is a choice of the      *)
(* environment.  Of the sequence the model keeps its length and its summed *)
(* duration; a round is held from generate_one_round's return until it has *)
(* been appended to the sequence.                                          *)
(***************************************************************************)
MaxTarget == 25

Both(d) == [has1 |-> TRUE, has2 |-> TRUE, d1 |-> d, d2 |-> d]
LeadOnly(d) == [has1 |-> TRUE, has2 |-> FALSE, d1 |-> d, d2 |-> 0]
NoClips == [has1 |-> FALSE, has2 |-> FALSE, d1 |-> 0, d2 |-> 0]

\* The folder lists: none, folders without a usable clip, 1 to 7 folders
\* holding both clips, and 6 folders of which one holds 1.mp4 only.
Pools ==
    { << >>, <<NoClips>>, <<NoClips, NoClips>>, <<LeadOnly(3)>>,
      <<Both(1)>>, <<Both(1), Both(1)>>, <<Both(1), Both(1), Both(1)>>,
      <<Both(1), Both(1), Both(1), Both(1)>>,
      <<Both(1), Both(1), Both(1), Both(1), Both(1)>>,
      <<Both(1), Both(1), Both(1), Both(1), Both(1), Both(1)>>,
      <<Both(1), Both(1), Both(1), Both(1), Both(1), Both(1), Both(1)>>,
      <<Both(1), Both(1), Both(1), Both(1), Both(1), LeadOnly(3)>> }

Range(q) == { q[i] : i \in 1..Len(q) }

\* random.sample(available_folders, k): the k-tuples without repetition.
Sample(avail, k) ==
    { q \in [1..k -> avail] : \A i \in 1..k : \A j \in 1..k : i # j => q[i] # q[j] }

\* A plausible slip: the drawn folders stay in the list.
RemainingKeep(avail, drawn) == avail

\* available_folders.remove(folder) for every drawn folder
Remaining(avail, drawn) == avail \ Range(drawn)

\* The draws of one round: 1 folder, 2 folders if at least 2 are left,
\* 3 folders if at least 3 are left.
RoundDraws(fl) ==
    LET all == DOMAIN fl
        T1 == IF all # {} THEN Sample(all, 1) ELSE { << >> }
    IN UNION { LET a1 == Remaining(all, t1)
                   T2 == IF Cardinality(a1) >= 2 THEN Sample(a1, 2) ELSE { << >> }
               IN UNION { LET a2 == Remaining(a1, t2)
                              T3 == IF Cardinality(a2) >= 3 THEN Sample(a2, 3)
                                    ELSE { << >> }
                          IN { <<t1, t2, t3>> : t3 \in T3 }
                          : t2 \in T2 }
               : t1 \in T1 }

\* The clips of one group: every 1.mp4 that exists, then every 2.mp4.
RECURSIVE ClipsOf(_, _, _)
ClipsOf(fl, group, clip) ==
    IF group = << >> THEN << >>
    ELSE (IF (clip = 1 /\ fl[Head(group)].has1) \/ (clip = 2 /\ fl[Head(group)].has2)
          THEN << <<Head(group), clip>> >> ELSE << >>)
         \o ClipsOf(fl, Tail(group), clip)

\* A plausible slip: the first group handled as the other two, each clip
\* on its own.
OneRoundEach(fl, tiers) ==
    ClipsOf(fl, tiers[1], 1) \o ClipsOf(fl, tiers[1], 2)
    \o ClipsOf(fl, tiers[2], 1) \o ClipsOf(fl, tiers[2], 2)
    \o ClipsOf(fl, tiers[3], 1) \o ClipsOf(fl, tiers[3], 2)

\* generate_one_round: the first group gives both clips or none.
OneRound(fl, tiers) ==
    (IF tiers[1] # << >> /\ fl[tiers[1][1]].has1 /\ fl[tiers[1][1]].has2
     THEN << <<tiers[1][1], 1>>, <<tiers[1][1], 2>> >> ELSE << >>)
    \o ClipsOf(fl, tiers[2], 1) \o ClipsOf(fl, tiers[2], 2)
    \o ClipsOf(fl, tiers[3], 1) \o ClipsOf(fl, tiers[3], 2)

\* sum(get_video_duration(v) for v in ...)
RECURSIVE SumDurations(_, _)
SumDurations(fl, clips) ==
    IF clips = << >> THEN 0
    ELSE (IF Head(clips)[2] = 1 THEN fl[Head(clips)[1]].d1
          ELSE fl[Head(clips)[1]].d2)
         + SumDurations(fl, Tail(clips))

\* A plausible slip: the ceiling of the quotient.
NeededRoundsCeil(target, one_round) ==
    IF one_round = 0 THEN 0 ELSE (target + one_round - 1) \div one_round

\* A plausible slip: an empty round is taken to need one round.
NeededRoundsGuarded(target, one_round) ==
    IF one_round = 0 THEN 1 ELSE (target \div one_round) + 1

\* needed_rounds = int(target_duration / one_round_duration) + 1; 0 stands
\* for the ZeroDivisionError of an empty first round.
NeededRounds(target, one_round) ==
    IF one_round = 0 THEN 0 ELSE (target \div one_round) + 1

InitPip2 ==
    /\ WindowerIdle /\ ComposerIdle
    /\ BatchIdle /\ CombineIdle /\ CaptionsIdle
    /\ VerifyIdle
    /\ HistoryIdle
    /\ JobsIdle
    /\ folders \in Pools
    /\ target_duration \in 1..MaxTarget
    /\ one_round_duration = 0
    /\ needed_rounds = 0
    /\ round_tiers = << >>
    /\ round_sequence = << >>
    /\ rounds_done = 0
    /\ sequence_len = 0
    /\ sequence_duration = 0
    /\ g_pc = "list"

\* The scan of pip2_folder: no sub-folder raises.
ListFolders ==
    /\ g_pc = "list"
    /\ g_pc' = IF folders = << >> THEN "raised" ELSE "first"
    /\ UNCHANGED <<folders, target_duration, one_round_duration, needed_rounds,
                   round_tiers, round_sequence, rounds_done, sequence_len,
                   sequence_duration>>
    /\ UNCHANGED <<wvars, cvars, bvars, kvars, svars, yvars, hvars, pvars>>

\* first_round = generate_one_round() and its summed duration
FirstRound ==
    /\ g_pc = "first"
    /\ \E tiers \in RoundDraws(folders) :
          /\ round_tiers' = tiers
          /\ round_sequence' = OneRound(folders, tiers)
          /\ one_round_duration' = SumDurations(folders, OneRound(folders, tiers))
    /\ g_pc' = "count"
    /\ UNCHANGED <<folders, target_duration, needed_rounds, rounds_done,
                   sequence_len, sequence_duration>>
    /\ UNCHANGED <<wvars, cvars, bvars, kvars, svars, yvars, hvars, pvars>>

\* needed_rounds, then sequence.extend(first_round)
CountRounds ==
    /\ g_pc = "count"
    /\ needed_rounds' = NeededRounds(target_duration, one_round_duration)
    /\ IF needed_rounds' = 0
       THEN /\ g_pc' = "raised"
            /\ UNCHANGED <<round_tiers, round_sequence, rounds_done,
                           sequence_len, sequence_duration>>
       ELSE /\ g_pc' = "more"
            /\ rounds_done' = 1
            /\ sequence_len' = Len(round_sequence)
            /\ sequence_duration' = one_round_duration
            /\ round_tiers' = << >>
            /\ round_sequence' = << >>
    /\ UNCHANGED <<folders, target_duration, one_round_duration>>
    /\ UNCHANGED <<wvars, cvars, bvars, kvars, svars, yvars, hvars, pvars>>

\* for round in range(1, needed_rounds): round_sequence = generate_one_round()
MoreRound ==
    /\ g_pc = "more"
    /\ rounds_done < needed_rounds
    /\ \E tiers \in RoundDraws(folders) :
          /\ round_tiers' = tiers
          /\ round_sequence' = OneRound(folders, tiers)
    /\ g_pc' = "extend"
    /\ UNCHANGED <<folders, target_duration, one_round_duration, needed_rounds,
                   rounds_done, sequence_len, sequence_duration>>
    /\ UNCHANGED <<wvars, cvars, bvars, kvars, svars, yvars, hvars, pvars>>

\* sequence.extend(round_sequence)
ExtendSequence ==
    /\ g_pc = "extend"
    /\ sequence_len' = sequence_len + Len(round_sequence)
    /\ sequence_duration' =
          sequence_duration + SumDurations(folders, round_sequence)
    /\ rounds_done' = rounds_done + 1
    /\ round_tiers' = << >>
    /\ round_sequence' = << >>
    /\ g_pc' = "more"
    /\ UNCHANGED <<folders, target_duration, one_round_duration, needed_rounds>>
    /\ UNCHANGED <<wvars, cvars, bvars, kvars, svars, yvars, hvars, pvars>>

\* return sequence
Pip2Return ==
    /\ g_pc = "more"
    /\ rounds_done >= needed_rounds
    /\ g_pc' = "returned"
    /\ UNCHANGED <<folders, target_duration, one_round_duration, needed_rounds,
                   round_tiers, round_sequence, rounds_done, sequence_len,
                   sequence_duration>>
    /\ UNCHANGED <<wvars, cvars, bvars, kvars, svars, yvars, hvars, pvars>>

NextPip2 ==
    \/ ListFolders
    \/ FirstRound
    \/ CountRounds
    \/ MoreRound
    \/ ExtendSequence
    \/ Pip2Return

SpecPip2 == InitPip2 /\ [][NextPip2]_vars

\* The calls on at most 3 folders, with progress: a call that can take a
\* step takes one.
InitPip2Few == InitPip2 /\ Len(folders) <= 3

SpecPip2Fair == InitPip2Few /\ [][NextPip2]_vars /\ WF_vars(NextPip2)

(***************************************************************************)
(* combine_videos: the filter graph of the composite.                      *)
(*                                                                         *)
(* "combiner" is combine_videos of core/video_combiner.py, "processor" the *)
(* one of core/video_processor.py (no title, no captions; it stops at the  *)
(* end of the main video).  A filter is a record [kind, base, top, out,    *)
(* lo, hi]; labels and inputs are pairs such as <<"bg", 1>>, <<"side", 0>> *)
(* and <<"in", 2>>.  An overlay with lo = -1 is always enabled, any other  *)
(* is enabled by between(t, lo, hi).  Times are tenths of a second.        *)
(***************************************************************************)
MaxSideClips == 3
SideDurs == {5, 10}
MainDurs == {10, 15, 25}

\* TEXT_OVERLAY_DURATION, FADE_IN_DURATION, FADE_OUT_DURATION: one setting
\* for each of the three branches of the title overlay.
TextSettings ==
    { [duration |-> 40, fade_in |-> 0, fade_out |-> 0],
      [duration |-> 40, fade_in |-> 0, fade_out |-> 5],
      [duration |-> 40, fade_in |-> 5, fade_out |-> 5] }

NoLabel == <<"none", 0>>
Input(n) == <<"in", n>>
Setpts(src, shift, out) ==
    [kind |-> "setpts", base |-> src, top |-> NoLabel, out |-> out,
     lo |-> shift, hi |-> -1]
Overlay(base, top, lo, hi, out) ==
    [kind |-> "overlay", base |-> base, top |-> top, out |-> out,
     lo |-> lo, hi |-> hi]

\* A plausible slip: every side clip is enabled from 0 on.
SideWindowFromZero(var, cur, d, main) == <<0, cur + d>>

\* The two arguments of the side clip's between(t, ., .).
SideWindow(var, cur, d, main) ==
    IF var = "processor" THEN <<cur, Min2(cur + d, main)>> ELSE <<cur, cur + d>>

\* A plausible slip: the composite is laid over the title.
TitleOverlayUnder(last, title, dur, out) == Overlay(title, last, 0, dur, out)

\* [last_bg][title]overlay=0:0:enable='between(t,0,text_duration)'
TitleOverlay(last, title, dur, out) == Overlay(last, title, 0, dur, out)

InitCombine ==
    /\ WindowerIdle /\ ComposerIdle
    /\ BatchIdle /\ Pip2Idle /\ CaptionsIdle
    /\ VerifyIdle
    /\ HistoryIdle
    /\ JobsIdle
    /\ variant \in {"combiner", "processor"}
    /\ side_videos \in UNION { [1..n -> SideDurs] : n \in 0..MaxSideClips }
    /\ main_duration \in MainDurs
    /\ text_settings \in TextSettings
    /\ merged_ass \in BOOLEAN
    /\ filter_complex = << >>
    /\ last_bg = NoLabel
    /\ current_time = 0
    /\ k_i = 0
    /\ k_pc = "base"

\* The background, the main video and the overlay of the one on the other.
BuildBase ==
    /\ k_pc = "base"
    /\ filter_complex' =
          << Setpts(Input(0), 0, <<"bg", 0>>),
             Setpts(Input(1), 0, <<"main", 0>>),
             Overlay(<<"bg", 0>>, <<"main", 0>>, -1, -1, <<"bg", 1>>) >>
    /\ last_bg' = <<"bg", 1>>
    /\ current_time' = 0
    /\ k_i' = 0
    /\ k_pc' = "side"
    /\ UNCHANGED <<variant, side_videos, main_duration, text_settings, merged_ass>>
    /\ UNCHANGED <<wvars, cvars, bvars, gvars, svars, yvars, hvars, pvars>>

\* One pass of the loop over side_videos.
AddSideClip ==
    /\ k_pc = "side"
    /\ k_i < Len(side_videos)
    /\ ~(variant = "processor" /\ current_time >= main_duration)
    /\ LET d == side_videos[k_i + 1]
           w == SideWindow(variant, current_time, d, main_duration)
       IN /\ filter_complex' =
                filter_complex \o
                << Setpts(Input(k_i + 2), current_time, <<"side", k_i>>),
                   Overlay(last_bg, <<"side", k_i>>, w[1], w[2], <<"bg", k_i + 2>>) >>
          /\ last_bg' = <<"bg", k_i + 2>>
          /\ current_time' = current_time + d
    /\ k_i' = k_i + 1
    /\ UNCHANGED <<variant, side_videos, main_duration, text_settings,
                   merged_ass, k_pc>>
    /\ UNCHANGED <<wvars, cvars, bvars, gvars, svars, yvars, hvars, pvars>>

\* The loop ends: no clip is left, or ("processor") the cursor has reached
\* the end of the main video.
EndSideLoop ==
    /\ k_pc = "side"
    /\ \/ k_i = Len(side_videos)
       \/ variant = "processor" /\ current_time >= main_duration
    /\ k_pc' = IF variant = "processor" THEN "done" ELSE "title"
    /\ UNCHANGED <<variant, side_videos, main_duration, text_settings,
                   merged_ass, filter_complex, last_bg, current_time, k_i>>
    /\ UNCHANGED <<wvars, cvars, bvars, gvars, svars, yvars, hvars, pvars>>

\* The title image: input number len(inputs), faded if so configured.
AddTitle ==
    /\ k_pc = "title"
    /\ LET title == Input(Len(side_videos) + 2)
           next_bg == <<"bg_text", last_bg[2]>>
           dur == text_settings.duration
       IN /\ filter_complex' =
                IF text_settings.fade_in = 0 /\ text_settings.fade_out = 0
                THEN Append(filter_complex, TitleOverlay(last_bg, title, dur, next_bg))
                ELSE filter_complex \o
                     << [kind |-> "fade", base |-> title, top |-> NoLabel,
                         out |-> <<"text_faded", 0>>,
                         lo |-> text_settings.fade_in,
                         hi |-> dur - text_settings.fade_out],
                        TitleOverlay(last_bg, <<"text_faded", 0>>, dur, next_bg) >>
          /\ last_bg' = next_bg
    /\ k_pc' = "caption"
    /\ UNCHANGED <<variant, side_videos, main_duration, text_settings,
                   merged_ass, current_time, k_i>>
    /\ UNCHANGED <<wvars, cvars, bvars, gvars, svars, yvars, hvars, pvars>>

\* The caption track if there is one, a pass-through if not.
AddCaptions ==
    /\ k_pc = "caption"
    /\ filter_complex' =
          Append(filter_complex,
                 [kind |-> IF merged_ass THEN "ass" ELSE "null",
                  base |-> last_bg, top |-> NoLabel, out |-> <<"final", 0>>,
                  lo |-> -1, hi |-> -1])
    /\ last_bg' = <<"final", 0>>
    /\ k_pc' = "done"
    /\ UNCHANGED <<variant, side_videos, main_duration, text_settings,
                   merged_ass, current_time, k_i>>
    /\ UNCHANGED <<wvars, cvars, bvars, gvars, svars, yvars, hvars, pvars>>

NextCombine ==
    \/ BuildBase
    \/ AddSideClip
    \/ EndSideLoop
    \/ AddTitle
    \/ AddCaptions

SpecCombine == InitCombine /\ [][NextCombine]_vars

(***************************************************************************)
(* The caption track.  merge_subtitles writes Dialogue lines to an ASS     *)
(* file for every block of the SRT pair.  An SRT time is counted in        *)
(* milliseconds; an ASS time is the tuple <<h, mm, ss, cc>> of the string  *)
(* "h:mm:ss.cc"; a style is its base name and whether it is the _Hidden    *)
(* (fully transparent) one.                                                *)
(***************************************************************************)
MaxCaptions == 2

Times == {2000, 2010, 3990, 4000, 4005, 4020, 8000, 9000, 10000}

\* A block of the SRT pair: its times, and whether both files hold at
\* least three lines (number, times, text) for it.
Blocks == { b \in [start : Times, end : Times, text : BOOLEAN] : b.start < b.end }

\* The times s + ms/1000 up to 10 s whose double, multiplied by 100, lies
\* just below the whole number of centiseconds: 2.01 * 100 is
\* 200.99999999999997, so int((total_seconds * 100) % 100) is 0, not 1.
FloatBelow ==
    { 290, 570, 580, 1130, 1150, 1160, 1570, 1820, 2010, 2030, 2050, 2070,
      2260, 2300, 2320, 2470, 2510, 2550, 4020, 4060, 4100, 4140, 4270,
      4310, 4350, 4390, 4520, 4600, 4640, 4690, 4770, 4850, 4890, 4940,
      5020, 5060, 5100, 8030, 8040, 8120, 8200, 8280, 8290, 8370, 8450,
      8530, 8540, 8620, 8700, 8780, 8790, 8870, 8950, 9030, 9040, 9120,
      9200, 9280, 9290, 9370, 9450, 9530, 9540, 9620, 9700, 9780, 9790,
      9870, 9950 }

\* parse_srt_time with add_delay = 0.
ParseSrtTime(ms) ==
    LET hours == ms \div 3600000
        minutes == (ms % 3600000) \div 60000
        seconds == (ms % 60000) \div 1000
        centiseconds == IF ms \in FloatBelow
                        THEN ((ms \div 10) % 100) - 1
                        ELSE (ms \div 10) % 100
    IN <<hours, minutes, seconds, centiseconds>>

\* parse_time_to_seconds, the result counted in centiseconds.
ParseTimeToSeconds(t) == t[1] * 360000 + t[2] * 6000 + t[3] * 100 + t[4]

\* The literal "0:00:04.00" and the 4 of the two comparisons.
HiddenUntil == <<0, 0, 4, 0>>

Dialogue(layer, start_t, end_t, name, is_hidden) ==
    [layer |-> layer, start |-> start_t, end |-> end_t,
     style |-> name, hidden |-> is_hidden]

WriteSubtitleWithBox(start_t, end_t, is_hidden) ==
    << Dialogue(0, start_t, end_t, "EN_BOX", is_hidden),
       Dialogue(1, start_t, end_t, "EN", is_hidden) >>

\* The Chinese line, then the English box and text, of one interval.
WriteStyled(start_t, end_t, is_hidden) ==
    << Dialogue(0, start_t, end_t, "CN", is_hidden) >>
        \o WriteSubtitleWithBox(start_t, end_t, is_hidden)

InitCaptions ==
    /\ WindowerIdle /\ ComposerIdle
    /\ BatchIdle /\ Pip2Idle /\ CombineIdle
    /\ VerifyIdle
    /\ HistoryIdle
    /\ JobsIdle
    /\ blocks \in UNION { [1..n -> Blocks] : n \in 1..MaxCaptions }
    /\ \A i \in 1..(Len(blocks) - 1) : blocks[i].end <= blocks[i + 1].start
    /\ events = << >>
    /\ s_i = 0
    /\ s_pc = "loop"

\* One pass of the loop over a block that has its three lines.
WriteBlock ==
    /\ s_pc = "loop"
    /\ s_i < Len(blocks)
    /\ blocks[s_i + 1].text
    /\ LET start_t == ParseSrtTime(blocks[s_i + 1].start)
           end_t == ParseSrtTime(blocks[s_i + 1].end)
           start_seconds == ParseTimeToSeconds(start_t)
           end_seconds == ParseTimeToSeconds(end_t)
       IN events' =
             IF start_seconds < ParseTimeToSeconds(HiddenUntil)
             THEN events
                  \o WriteStyled(start_t, HiddenUntil, TRUE)
                  \o ( IF end_seconds > ParseTimeToSeconds(HiddenUntil)
                       THEN WriteStyled(HiddenUntil, end_t, FALSE)
                       ELSE << >> )
             ELSE events \o WriteStyled(start_t, end_t, FALSE)
    /\ s_i' = s_i + 1
    /\ UNCHANGED <<blocks, s_pc>>
    /\ UNCHANGED <<wvars, cvars, bvars, gvars, kvars, yvars, hvars, pvars>>

\* A block with fewer than three lines in either file writes nothing.
SkipBlock ==
    /\ s_pc = "loop"
    /\ s_i < Len(blocks)
    /\ ~blocks[s_i + 1].text
    /\ s_i' = s_i + 1
    /\ UNCHANGED <<blocks, events, s_pc>>
    /\ UNCHANGED <<wvars, cvars, bvars, gvars, kvars, yvars, hvars, pvars>>

CaptionsReturn ==
    /\ s_pc = "loop"
    /\ s_i = Len(blocks)
    /\ s_pc' = "done"
    /\ UNCHANGED <<blocks, events, s_i>>
    /\ UNCHANGED <<wvars, cvars, bvars, gvars, kvars, yvars, hvars, pvars>>

NextCaptions ==
    \/ WriteBlock
    \/ SkipBlock
    \/ CaptionsReturn

SpecCaptions == InitCaptions /\ [][NextCaptions]_vars

(***************************************************************************)
(* The analysis pipeline of SubtitleProcessor: process_subtitle_file,      *)
(* verify_timestamp, save_analysis_results.  A text is a sequence of       *)
(* characters; an item is a record whose absent keys hold 0, "unset" or "".*)
(* The transcript has two lines and a last line that ends at 60 s.         *)
(***************************************************************************)
Analyzers == {"deepseek", "deepseek1", "copy"}

LineTexts == { <<"A", " ", "b">>, <<"a", "b">>, <<"c">> }
ItemTexts == { <<"a">>, <<"a", " ", "b">>, <<"d">> }

VerifyTranscripts ==
    { << [start_time |-> s1, end_time |-> s1 + 200, text |-> t1],
         [start_time |-> s2, end_time |-> s2 + 200, text |-> t2],
         [start_time |-> 5000, end_time |-> 6000, text |-> <<"c">>] >> :
        s1 \in {500, 1000}, s2 \in {2000, 3500}, t1 \in LineTexts, t2 \in LineTexts }

\* What the analysis service returns: up to two vocabulary items, up to one
\* phrase, no expression.
Contents ==
    LET returned == [text : ItemTexts, segment : {1, 3}]
        UpTo(n) == UNION { [1..m -> returned] : m \in 0..n }
    IN { [c \in 1..3 |-> IF c = 1 THEN v ELSE IF c = 2 THEN p ELSE << >>] :
         v \in UpTo(2), p \in UpTo(1) }

\* str.lower()
Lower(t) == [i \in 1..Len(t) |-> IF t[i] = "A" THEN "a" ELSE t[i]]

\* a in b, of two strings
IsIn(a, b) == \E i \in 1..(Len(b) - Len(a) + 1) : SubSeq(b, i, i + Len(a) - 1) = a

\* The members of the list t.split()
Words(t) ==
    { SubSeq(t, i, j) : i \in 1..Len(t), j \in 1..Len(t) } \cap
    { w \in UNION { [1..n -> {"a", "b", "c", "d", "A"}] : n \in 1..Len(t) } :
        \E i \in 1..Len(t) :
            /\ i + Len(w) - 1 <= Len(t)
            /\ SubSeq(t, i, i + Len(w) - 1) = w
            /\ (i = 1 \/ t[i - 1] = " ")
            /\ (i + Len(w) - 1 = Len(t) \/ t[i + Len(w)] = " ") }

\* find_timestamp_for_text: the index of the first subtitle that holds the
\* text, 0 for None.
FindTimestampForText(subs, target_text) ==
    LET hits == { i \in 1..Len(subs) : IsIn(Lower(target_text), Lower(subs[i].text)) }
    IN IF hits = {} THEN 0 ELSE CHOOSE i \in hits : \A j \in hits : i <= j

\* The timestamped items of one category: analyze_subtitles appends an
\* item only "if timestamp".
Timestamped(subs, items) ==
    LET found == SelectSeq(items, LAMBDA it : FindTimestampForText(subs, it.text) # 0)
    IN [i \in 1..Len(found) |->
          LET sub == subs[FindTimestampForText(subs, found[i].text)]
          IN [text |-> Lower(found[i].text), segment |-> 0,
              start_time |-> sub.start_time, end_time |-> sub.end_time,
              verified |-> "unset", error |-> ""]]

\* An item of the service as verify_timestamp of deepseek1.py receives it.
AsReturned(items) ==
    [i \in 1..Len(items) |->
        [text |-> items[i].text, segment |-> items[i].segment,
         start_time |-> 0, end_time |-> 0, verified |-> "unset", error |-> ""]]

\* verify_timestamp of deepseek.py on one item: the timestamp line is
\* looked up in the file, and the text in the block under its first
\* occurrence.
VerifyByTimestamp(subs, item) ==
    LET same == { i \in 1..Len(subs) :
                    /\ subs[i].start_time = item.start_time
                    /\ subs[i].end_time = item.end_time }
    IN IF same = {}
       THEN [item EXCEPT !.verified = FALSE, !.error = "timestamp"]
       ELSE LET block == subs[CHOOSE i \in same : \A j \in same : i <= j].text
            IN IF IsIn(Lower(item.text), Lower(block))
               THEN [item EXCEPT !.verified = TRUE]
               ELSE [item EXCEPT !.verified = FALSE, !.error = "text"]

\* verify_timestamp of deepseek1.py and of the copy on one item.  The keys
\* of segment_map are the lowered line texts in the order of their first
\* occurrence, the value of a key is its last occurrence; the first key
\* that matches gives the times; only segment 1 has its time checked.
VerifyBySegmentMap(an, subs, item) ==
    LET key(i) == Lower(subs[i].text)
        keys == { i \in 1..Len(subs) : \A j \in 1..(i - 1) : key(j) # key(i) }
        value(i) == subs[CHOOSE j \in 1..Len(subs) :
                           /\ key(j) = key(i)
                           /\ \A k \in (j + 1)..Len(subs) : key(k) # key(i)]
        match(i) == IF an = "copy" THEN Lower(item.text) \in Words(key(i))
                    ELSE IsIn(Lower(item.text), key(i))
        hits == { i \in keys : match(i) }
    IN IF hits = {}
       THEN [item EXCEPT !.verified = FALSE, !.error = "text"]
       ELSE LET time_info == value(CHOOSE i \in hits : \A j \in hits : i <= j)
                within == 700 <= time_info.start_time /\ time_info.start_time <= 1500
            IN IF item.segment = 1 /\ ~within
               THEN [item EXCEPT !.verified = FALSE, !.error = "segment_1",
                                 !.start_time = time_info.start_time,
                                 !.end_time = time_info.end_time]
               ELSE [item EXCEPT !.verified = TRUE,
                                 !.start_time = time_info.start_time,
                                 !.end_time = time_info.end_time]

InitVerify ==
    /\ WindowerIdle /\ ComposerIdle
    /\ BatchIdle /\ Pip2Idle /\ CombineIdle /\ CaptionsIdle
    /\ HistoryIdle
    /\ JobsIdle
    /\ analyzer \in Analyzers
    /\ srt \in VerifyTranscripts
    /\ content_json \in Contents
    /\ analysis_result = << >>
    /\ saved = << >>
    /\ y_pc = "analyze"

\* process_subtitle_file: the analysis and the translation, which adds keys
\* to the items it is given.
ProcessSubtitleFile ==
    /\ y_pc = "analyze"
    /\ analysis_result' =
          [c \in 1..3 |->
              IF analyzer = "deepseek" THEN Timestamped(srt, content_json[c])
              ELSE AsReturned(content_json[c])]
    /\ y_pc' = "verify"
    /\ UNCHANGED <<analyzer, srt, content_json, saved>>
    /\ UNCHANGED <<wvars, cvars, bvars, gvars, kvars, svars, hvars, pvars>>

\* The request fails or its answer is no JSON: process_subtitle_file
\* returns None and nothing is saved.
AnalysisFails ==
    /\ y_pc = "analyze"
    /\ y_pc' = "failed"
    /\ UNCHANGED <<analyzer, srt, content_json, analysis_result, saved>>
    /\ UNCHANGED <<wvars, cvars, bvars, gvars, kvars, svars, hvars, pvars>>

\* verify_timestamp changes the items in place and returns them in their
\* lists; save_analysis_results writes what it returned.
VerifyAndSave ==
    /\ y_pc = "verify"
    /\ analysis_result' =
          [c \in 1..3 |->
              [i \in 1..Len(analysis_result[c]) |->
                  IF analyzer = "deepseek"
                  THEN VerifyByTimestamp(srt, analysis_result[c][i])
                  ELSE VerifyBySegmentMap(analyzer, srt, analysis_result[c][i])]]
    /\ saved' = analysis_result'
    /\ y_pc' = "done"
    /\ UNCHANGED <<analyzer, srt, content_json>>
    /\ UNCHANGED <<wvars, cvars, bvars, gvars, kvars, svars, hvars, pvars>>

NextVerify ==
    \/ ProcessSubtitleFile
    \/ AnalysisFails
    \/ VerifyAndSave

SpecVerify == InitVerify /\ [][NextVerify]_vars

(***************************************************************************)
(* The used-history of the video selection.  run.py calls main() twice:    *)
(* with get_name_only=True for the name of the video whose subtitles it    *)
(* then processes, and again for the synthesis; each call selects a video  *)
(* with get_random_video, which loads logs/video_history.json, chooses,    *)
(* appends and saves.  A process is one execution of run.py after the      *)
(* other; the file is written by open(.., 'w'), which empties it, and      *)
(* json.dump.                                                              *)
(***************************************************************************)
Procs == {1, 2}
MaxRuns == 2

\* The pools: A holds one video, B two, C none.
HistoryPools ==
    { [f \in {"A"} |-> {1}],
      [f \in {"A", "B"} |-> IF f = "A" THEN {1} ELSE {1, 2}],
      [f \in {"A", "B", "C"} |-> IF f = "A" THEN {1} ELSE IF f = "B" THEN {1, 2} ELSE {}] }

\* {"folders": [], "videos": [], ...}
EmptyHistory == [folders |-> << >>, videos |-> << >>]

\* The file before the first run: missing, or holding n entries of folders
\* and videos that are no longer in the pool.
HistoryFiles ==
    { [st |-> "none", h |-> EmptyHistory] } \cup
    { [st |-> "json", h |-> [folders |-> [i \in 1..n |-> "x"],
                             videos |-> [i \in 1..n |-> 0]]] : n \in {0, 9} }

\* A plausible slip: the lists are saved whole.
Last10Whole(s) == s

\* history[key][-10:]
Last10(s) == IF Len(s) <= 10 THEN s ELSE SubSeq(s, Len(s) - 9, Len(s))

\* available_dirs, with the subdirs for it when none is left
AvailableDirs(h) ==
    LET a == { d \in DOMAIN pool : d \notin Range(h.folders) }
    IN IF a = {} THEN DOMAIN pool ELSE a

\* available_videos of the selected folder, likewise
AvailableVideos(h, d) ==
    LET a == { v \in pool[d] : v \notin Range(h.videos) }
    IN IF a = {} THEN pool[d] ELSE a

\* The dict after the two appends of a selection of video v of folder d.
Appended(h, d, v) ==
    [folders |-> Append(IF \A e \in DOMAIN pool : e \in Range(h.folders)
                        THEN << >> ELSE h.folders, d),
     videos |-> Append(IF \A w \in pool[d] : w \in Range(h.videos)
                       THEN << >> ELSE h.videos, v)]

NoPick == [name |-> "", subtitle |-> "", synth |-> ""]

InitHistoryOf(active) ==
    /\ WindowerIdle /\ ComposerIdle
    /\ BatchIdle /\ Pip2Idle /\ CombineIdle /\ CaptionsIdle
    /\ VerifyIdle
    /\ JobsIdle
    /\ pool \in HistoryPools
    /\ history_file \in HistoryFiles
    /\ history = [p \in Procs |-> EmptyHistory]
    /\ picked = [p \in Procs |-> NoPick]
    /\ runs = [p \in Procs |-> IF p \in active THEN 1 ELSE 0]
    /\ h_pc = [p \in Procs |-> IF p \in active THEN <<"name", "load">> ELSE <<"off", "">>]

InitHistory == InitHistoryOf({1})

InitHistory2 == InitHistoryOf({1, 2})

\* load_history: the default dict when the file is missing or is no JSON.
LoadHistory(p) ==
    /\ h_pc[p][2] = "load"
    /\ history' = [history EXCEPT ![p] =
                      IF history_file.st = "json" THEN history_file.h ELSE EmptyHistory]
    /\ h_pc' = [h_pc EXCEPT ![p] = <<h_pc[p][1], "select">>]
    /\ UNCHANGED <<pool, history_file, picked, runs>>
    /\ UNCHANGED <<wvars, cvars, bvars, gvars, kvars, svars, yvars, pvars>>

\* get_random_video from the choice of the folder to the open(.., 'w') of
\* save_history; a folder without a video raises.
SelectVideo(p) ==
    /\ h_pc[p][2] = "select"
    /\ \E d \in AvailableDirs(history[p]) :
          IF pool[d] = {}
          THEN /\ h_pc' = [h_pc EXCEPT ![p] = <<"raised", "">>]
               /\ UNCHANGED <<history, history_file, picked>>
          ELSE \E v \in AvailableVideos(history[p], d) :
                  /\ history' = [history EXCEPT ![p] =
                        [folders |-> Last10(Appended(history[p], d, v).folders),
                         videos |-> Last10(Appended(history[p], d, v).videos)]]
                  /\ history_file' = [history_file EXCEPT !.st = "partial"]
                  /\ picked' = [picked EXCEPT ![p] =
                        IF h_pc[p][1] = "name"
                        THEN [name |-> d, subtitle |-> "", synth |-> ""]
                        ELSE [picked[p] EXCEPT !.synth = d]]
                  /\ h_pc' = [h_pc EXCEPT ![p] = <<h_pc[p][1], "write">>]
    /\ UNCHANGED <<pool, runs>>
    /\ UNCHANGED <<wvars, cvars, bvars, gvars, kvars, svars, yvars, pvars>>

\* json.dump(history, f) and the return of the selection.
WriteHistory(p) ==
    /\ h_pc[p][2] = "write"
    /\ history_file' = [st |-> "json", h |-> history[p]]
    /\ h_pc' = [h_pc EXCEPT ![p] =
                   IF h_pc[p][1] = "name" THEN <<"subtitle", "">> ELSE <<"done", "">>]
    /\ UNCHANGED <<pool, history, picked, runs>>
    /\ UNCHANGED <<wvars, cvars, bvars, gvars, kvars, svars, yvars, pvars>>

\* process_video_subtitle(video_name), then main() for the synthesis.
ProcessVideoSubtitle(p) ==
    /\ h_pc[p] = <<"subtitle", "">>
    /\ picked' = [picked EXCEPT ![p].subtitle = picked[p].name]
    /\ h_pc' = [h_pc EXCEPT ![p] = <<"synth", "load">>]
    /\ UNCHANGED <<pool, history_file, history, runs>>
    /\ UNCHANGED <<wvars, cvars, bvars, gvars, kvars, svars, yvars, pvars>>

\* run.py is started again.
NextRun(p) ==
    /\ h_pc[p] = <<"done", "">>
    /\ runs[p] < MaxRuns
    /\ runs' = [runs EXCEPT ![p] = runs[p] + 1]
    /\ picked' = [picked EXCEPT ![p] = NoPick]
    /\ h_pc' = [h_pc EXCEPT ![p] = <<"name", "load">>]
    /\ UNCHANGED <<pool, history_file, history>>
    /\ UNCHANGED <<wvars, cvars, bvars, gvars, kvars, svars, yvars, pvars>>

NextHistory ==
    \E p \in Procs :
        \/ LoadHistory(p)
        \/ SelectVideo(p)
        \/ WriteHistory(p)
        \/ ProcessVideoSubtitle(p)
        \/ NextRun(p)

SpecHistory == InitHistory /\ [][NextHistory]_vars

SpecHistory2 == InitHistory2 /\ [][NextHistory]_vars

(***************************************************************************)
(* Two clip jobs of one VideoClipper run side by side.                     *)
(*                                                                         *)
(* Each job is a call of _create_enzh_version for its own item: its own    *)
(* start_time, audio files and output_path, hence its own merged audio     *)
(* output_path + ".temp.aac", which is left out.  Both calls pass the same *)
(* self.video_path to _create_blurred_freeze_video, which places its two   *)
(* temporary files in the directory of that video under fixed names.  A    *)
(* step is one ffmpeg run together with the Python statements up to the    *)
(* next run.  A file is known by the job whose frame it shows; ffmpeg      *)
(* fails when its input file is not there, and may fail besides.           *)
(***************************************************************************)
Jobs == {1, 2}
JobOutcomes == {"ok", "error"}
NoVideo == <<0, 0>>

InitJobsOf(active) ==
    /\ WindowerIdle /\ ComposerIdle
    /\ BatchIdle /\ Pip2Idle /\ CombineIdle /\ CaptionsIdle
    /\ VerifyIdle
    /\ HistoryIdle
    /\ temp_frame = 0
    /\ temp_blur_video = NoVideo
    /\ outputs = [j \in Jobs |-> NoVideo]
    /\ job_rc = [j \in Jobs |-> 0]
    /\ job_ret = [j \in Jobs |-> "none"]
    /\ job_pc = [j \in Jobs |-> IF j \in active THEN "frame" ELSE "off"]

InitJobs == InitJobsOf(Jobs)

\* return None of _create_blurred_freeze_video, return False of the caller
JobFails(j) ==
    /\ job_pc' = [job_pc EXCEPT ![j] = "done"]
    /\ job_ret' = [job_ret EXCEPT ![j] = "False"]

\* ffmpeg -y -ss start_time -i video_path -vframes 1 ... temp_frame
JobExtractFrame(j) ==
    /\ job_pc[j] = "frame"
    /\ \E o \in JobOutcomes :
          /\ temp_frame' = IF o = "ok" THEN j ELSE temp_frame
          /\ job_rc' = [job_rc EXCEPT ![j] = IF o = "ok" THEN 0 ELSE 1]
    /\ job_pc' = [job_pc EXCEPT ![j] = "frame_check"]
    /\ UNCHANGED <<temp_blur_video, outputs, job_ret>>
    /\ UNCHANGED <<wvars, cvars, bvars, gvars, kvars, svars, yvars, hvars>>

\* the return code, then os.path.exists(temp_frame)
JobCheckFrame(j) ==
    /\ job_pc[j] = "frame_check"
    /\ IF job_rc[j] # 0 \/ temp_frame = 0
       THEN JobFails(j)
       ELSE /\ job_pc' = [job_pc EXCEPT ![j] = "blur"]
            /\ UNCHANGED job_ret
    /\ UNCHANGED <<temp_frame, temp_blur_video, outputs, job_rc>>
    /\ UNCHANGED <<wvars, cvars, bvars, gvars, kvars, svars, yvars, hvars>>

\* ffmpeg -y -loop 1 -i temp_frame ... temp_blur_video
JobBlurVideo(j) ==
    /\ job_pc[j] = "blur"
    /\ \E o \in JobOutcomes :
          LET ran == o = "ok" /\ temp_frame # 0
          IN /\ temp_blur_video' = IF ran THEN <<j, temp_frame>> ELSE temp_blur_video
             /\ job_rc' = [job_rc EXCEPT ![j] = IF ran THEN 0 ELSE 1]
    /\ job_pc' = [job_pc EXCEPT ![j] = "blur_check"]
    /\ UNCHANGED <<temp_frame, outputs, job_ret>>
    /\ UNCHANGED <<wvars, cvars, bvars, gvars, kvars, svars, yvars, hvars>>

\* os.remove(temp_frame) if it exists, the return code, then the existence
\* and the size of temp_blur_video
JobCheckBlur(j) ==
    /\ job_pc[j] = "blur_check"
    /\ temp_frame' = 0
    /\ IF job_rc[j] # 0 \/ temp_blur_video = NoVideo
       THEN JobFails(j)
       ELSE /\ job_pc' = [job_pc EXCEPT ![j] = "mux"]
            /\ UNCHANGED job_ret
    /\ UNCHANGED <<temp_blur_video, outputs, job_rc>>
    /\ UNCHANGED <<wvars, cvars, bvars, gvars, kvars, svars, yvars, hvars>>

\* ffmpeg -y -i blur_video -i temp_audio ... output_path
JobMux(j) ==
    /\ job_pc[j] = "mux"
    /\ \E o \in JobOutcomes :
          LET ran == o = "ok" /\ temp_blur_video # NoVideo
          IN /\ outputs' = [outputs EXCEPT ![j] = IF ran THEN temp_blur_video ELSE @]
             /\ job_rc' = [job_rc EXCEPT ![j] = IF ran THEN 0 ELSE 1]
    /\ job_pc' = [job_pc EXCEPT ![j] = "cleanup"]
    /\ UNCHANGED <<temp_frame, temp_blur_video, job_ret>>
    /\ UNCHANGED <<wvars, cvars, bvars, gvars, kvars, svars, yvars, hvars>>

\* os.remove(blur_video) if it exists, then the return code
JobCleanup(j) ==
    /\ job_pc[j] = "cleanup"
    /\ temp_blur_video' = NoVideo
    /\ job_pc' = [job_pc EXCEPT ![j] = "done"]
    /\ job_ret' = [job_ret EXCEPT ![j] = IF job_rc[j] = 0 THEN "True" ELSE "False"]
    /\ UNCHANGED <<temp_frame, outputs, job_rc>>
    /\ UNCHANGED <<wvars, cvars, bvars, gvars, kvars, svars, yvars, hvars>>

NextJobs ==
    \E j \in Jobs :
        \/ JobExtractFrame(j)
        \/ JobCheckFrame(j)
        \/ JobBlurVideo(j)
        \/ JobCheckBlur(j)
        \/ JobMux(j)
        \/ JobCleanup(j)

SpecJobs == InitJobs /\ [][NextJobs]_vars

(***************************************************************************)
(* Properties of the windower.                                             *)
(***************************************************************************)
\* Two half-open intervals share no point.
Disjoint(a, b) == ~(Max2(a[1], b[1]) < Min2(a[2], b[2]))
NonEmpty(r) == r[1] < r[2]

\* The windows in whose list subtitle i stands, and how often it stands there.
WindowsOfLine(i) ==
    { k \in Segments :
        \E p \in 1..Len(segmented_subtitles[k]) : segmented_subtitles[k][p] = i }
Occurrences(i) ==
    Cardinality({ <<k, p>> \in Segments \X (1..Len(subtitles)) :
                    /\ p <= Len(segmented_subtitles[k])
                    /\ segmented_subtitles[k][p] = i })
Processed(i) == w_pc # "start" /\ i \in 1..Len(subtitles) /\ i < w_i

WindowsWellFormed(T) ==
    /\ time_ranges[1] = <<700, 1500>>
    /\ \A i \in Segments : \A j \in Segments :
          i < j => Disjoint(time_ranges[i], time_ranges[j])
    /\ \A i \in Segments :
          NonEmpty(time_ranges[i]) =>
              700 <= time_ranges[i][1] /\ time_ranges[i][2] <= T - 700

\* C1 (as amended): for every total duration T >= 50 s the six computed
\* windows are pairwise disjoint, window 1 is exactly [7,15), and every
\* window lies inside [7, T-7).
C1_WindowsDisjointFrom50 ==
    (w_pc # "start" /\ total_duration >= 5000) =>
        WindowsWellFormed(total_duration)

\* C1 witness: the ranges of a 60 s transcript have been computed and all of
\* windows 2..6 are non-empty.
C1_Witness ==
    /\ w_pc # "start"
    /\ total_duration = 6000
    /\ \A k \in Segments : NonEmpty(time_ranges[k])

\* C1 as stated: the same for every total duration T >= 22 s.
C1_Original ==
    (w_pc # "start" /\ total_duration >= 2200) =>
        WindowsWellFormed(total_duration)

InCore(i, T) ==
    700 <= subtitles[i].start_time /\ subtitles[i].start_time < T - 700

ExactlyOneWindowInCore(i, T) ==
    IF InCore(i, T)
    THEN Cardinality(WindowsOfLine(i)) = 1 /\ Occurrences(i) = 1
    ELSE WindowsOfLine(i) = {}

\* The fifth range ends no later than the outro begins: 0.85 T <= T - 7,
\* that is T >= 46 2/3 s.
OutroFits(T) == T * 85 <= (T - 700) * 100

\* C2 (as amended): when the total duration T satisfies 0.85 T <= T - 7
\* (T >= 46 2/3 s), every line whose start time lies in [7, T-7) is assigned
\* to exactly one window and every line whose start time lies outside
\* [7, T-7) is assigned to none.
C2_OneWindowWhenOutroFits ==
    \A i \in 1..Len(subtitles) :
        (Processed(i) /\ OutroFits(total_duration)) =>
            ExactlyOneWindowInCore(i, total_duration)

\* C2 witness: with T = 47 s, one processed line starts inside [7, T-7) and
\* has a window, another starts outside and has none.
C2_Witness ==
    /\ w_pc = "done"
    /\ total_duration = 4700
    /\ OutroFits(total_duration)
    /\ \E i \in 1..Len(subtitles) :
          InCore(i, total_duration) /\ WindowsOfLine(i) # {}
    /\ \E i \in 1..Len(subtitles) :
          ~InCore(i, total_duration) /\ WindowsOfLine(i) = {}

\* C2 as stated: the same for every total duration.
C2_Original ==
    \A i \in 1..Len(subtitles) :
        Processed(i) => ExactlyOneWindowInCore(i, total_duration)

\* The window of each line of a finished run, 0 for none.
WindowOf(i) ==
    IF WindowsOfLine(i) = {} THEN 0
    ELSE CHOOSE k \in WindowsOfLine(i) : \A j \in WindowsOfLine(i) : k <= j
WindowList == [i \in 1..Len(subtitles) |-> WindowOf(i)]

\* C3 (as amended): for the 60 s transcript with lines starting at 10, 20,
\* 35, 45 and 50 s the boundaries are 15, 18, 30, 42, 51 and 53 s and the
\* lines are assigned to windows 1, 3, 4, 5 and 5.
C3_Scenario60Windows ==
    (subtitles = Scenario60 /\ w_pc = "done") =>
        /\ time_ranges = << <<700, 1500>>, <<1500, 1800>>, <<1800, 3000>>,
                            <<3000, 4200>>, <<4200, 5100>>, <<5100, 5300>> >>
        /\ WindowList = <<1, 3, 4, 5, 5>>

\* C3 witness: the scenario transcript has been assigned completely.
C3_Witness ==
    /\ subtitles = Scenario60
    /\ w_pc = "done"
    /\ total_duration = 6000
    /\ \A i \in 1..5 : Occurrences(i) = 1

\* C3 as stated: the five lines are assigned to windows 1, 2, 3, 4 and 5.
C3_Original ==
    (subtitles = Scenario60 /\ w_pc = "done") =>
        WindowList = <<1, 2, 3, 4, 5>>

\* C4: a line that is assigned a window is tagged skip exactly when it is in
\* window 1 and extends outside [7,15) or its end time exceeds T-7, is
\* tagged eligible otherwise, and its tag is assigned exactly once; a line
\* without a window is never tagged.
C4_EligibilityTag ==
    \A i \in 1..Len(subtitles) :
        Processed(i) =>
            IF WindowsOfLine(i) # {}
            THEN /\ tag_writes[i] = 1
                 /\ i \in DOMAIN skip_extract
                 /\ skip_extract[i] =
                       ( \/ /\ 1 \in WindowsOfLine(i)
                            /\ \/ subtitles[i].start_time < 700
                               \/ subtitles[i].end_time > 1500
                         \/ subtitles[i].end_time > total_duration - 700 )
            ELSE tag_writes[i] = 0 /\ i \notin DOMAIN skip_extract

\* C4 witness: a finished run in which one line is tagged eligible and one
\* line outside window 1 is tagged skip because it ends after T-7.
C4_Witness ==
    /\ w_pc = "done"
    /\ \E i \in DOMAIN skip_extract : skip_extract[i] = FALSE
    /\ \E i \in DOMAIN skip_extract :
          /\ skip_extract[i] = TRUE
          /\ 1 \notin WindowsOfLine(i)
          /\ subtitles[i].end_time > total_duration - 700

\* The ranges that contain the start time of line i.
MatchingRanges(i) ==
    { k \in Segments :
        /\ time_ranges[k][1] <= subtitles[i].start_time
        /\ subtitles[i].start_time < time_ranges[k][2] }

\* C5: for any total duration, a line stands in the list of at most one
\* window, the lowest-numbered one whose range contains its start time, and
\* a line whose start time is in no range stands in no list.
C5_FirstMatchWins ==
    \A i \in 1..Len(subtitles) :
        Processed(i) =>
            /\ Occurrences(i) <= 1
            /\ IF MatchingRanges(i) = {}
               THEN WindowsOfLine(i) = {}
               ELSE WindowsOfLine(i) =
                      { CHOOSE k \in MatchingRanges(i) :
                            \A j \in MatchingRanges(i) : k <= j }

\* C5 witness: a processed line whose start time lies in two overlapping
\* ranges (a short transcript), and a processed line in no range.
C5_Witness ==
    /\ w_pc = "done"
    /\ \E i \in 1..Len(subtitles) :
          Cardinality(MatchingRanges(i)) >= 2 /\ Occurrences(i) = 1
    /\ \E i \in 1..Len(subtitles) : MatchingRanges(i) = {}

(***************************************************************************)
(* Properties of the clip composers.                                       *)
(***************************************************************************)
RECURSIVE StreamDuration(_)
StreamDuration(v) ==
    IF v = << >> THEN 0 ELSE Head(v).dur + StreamDuration(Tail(v))

Hybrid == {"complete_bak", "clip_bak"}
PaddingComputed == version \in Hybrid /\ temp_video # "none"
\* A composer that assembles an audio track has returned True.
Succeeded == c_pc = "done" /\ result = "True" /\ merge_ret = "True"

\* C6: for every audio duration and every segment duration (item end time
\* minus item start time), the freeze padding the composer computes is
\* max(0, audioDuration - videoDuration).
C6_PaddingIsClampedDifference ==
    PaddingComputed =>
        /\ video_duration = end_time - start_time
        /\ freeze_duration >= 0
        /\ total_audio_duration >= video_duration
              => freeze_duration = total_audio_duration - video_duration
        /\ total_audio_duration < video_duration => freeze_duration = 0

\* C6 witness: the padding was computed for an audio track shorter than
\* the segment.
C6_Witness ==
    /\ PaddingComputed
    /\ version = "complete_bak"
    /\ total_audio_duration > 0
    /\ total_audio_duration < end_time - start_time
    /\ freeze_duration = 0

\* C7 (as amended): after a successful compose call the video stream of the
\* output lasts as long as the merged audio when the composer replaces the
\* segment by a hold (core/), and as long as the longer of the merged audio
\* and the source segment when the composer keeps the segment (备份/8
\* _create_complete_version): there it equals the audio only when the audio
\* is at least as long as the segment.
C7_OutputVideoDuration ==
    Succeeded =>
        /\ fs["output"].st = "data"
        /\ fs["output"].ad = total_audio_duration
        /\ StreamDuration(fs["output"].v) =
              IF version \in PureFreeze THEN total_audio_duration
              ELSE Max2(total_audio_duration, end_time - start_time)

\* C7 witness: a successful call of the segment-keeping composer with an
\* audio track shorter than the segment.
C7_Witness ==
    /\ Succeeded
    /\ version = "complete_bak"
    /\ total_audio_duration < end_time - start_time
    /\ StreamDuration(fs["output"].v) = end_time - start_time

\* C7 as stated: after every successful compose call the video stream of
\* the output lasts exactly as long as the merged audio.
C7_Original ==
    Succeeded => StreamDuration(fs["output"].v) = fs["output"].ad

\* The segment followed by a frozen tail of the padding, no tail for no
\* padding.
SegmentThenTail ==
    IF total_audio_duration > end_time - start_time
    THEN << Motion(end_time - start_time),
            Freeze(total_audio_duration - (end_time - start_time)) >>
    ELSE << Motion(end_time - start_time) >>

\* C8 (as amended): the composer of 备份/8 (_create_complete_version) puts
\* out the source segment followed by a blurred freeze tail of the padding
\* duration, in that order (3.0 s of motion, then 2.2 s of hold for a 5.2 s
\* audio track); the composers of core/ put out no source motion at all but
\* a blurred hold of the frame at the item's start time for the whole
\* audio duration.
C8_OutputContent ==
    Succeeded =>
        fs["output"].v =
            IF version = "complete_bak" THEN SegmentThenTail
            ELSE << Freeze(total_audio_duration) >>

\* C8 witness: the 5.2 s / 3.0 s scenario, composed by 备份/8.
C8_Witness ==
    /\ Succeeded
    /\ version = "complete_bak"
    /\ total_audio_duration = 52
    /\ end_time - start_time = 30
    /\ fs["output"].v = << Motion(30), Freeze(22) >>

\* C8 as stated: the output of every composer is the source segment
\* followed by a frozen tail of the padding duration.
C8_Original ==
    Succeeded => fs["output"].v = SegmentThenTail

MergeCalled == merge_ret # "not_called"
Required == { AudioSequence(version)[i] : i \in 1..Len(AudioSequence(version)) }
RoleUnusable(r) ==
    \/ ~HasKey(merge_input, r)
    \/ fs[PathOf(r)].st = "none"
    \/ fs[PathOf(r)].st = "empty"

C11_NoTempLeft ==
    c_pc = "done" => \A n \in TempNames : fs[n].st = "none"

\* C11 witness: _create_enzh_version has returned False because the frame
\* could not be extracted (ffmpeg wrote nothing), and the merged temp audio
\* it created is still there.
C11_Witness ==
    /\ c_pc = "done"
    /\ version = "enzh"
    /\ result = "False"
    /\ merge_ret = "True"
    /\ fs["temp_frame"].st = "none"
    /\ fs["temp_blur"].st = "none"
    /\ fs["temp_audio"].st = "data"

(***************************************************************************)
(* Properties of the batch.                                                *)
(***************************************************************************)
\* C12 as stated: no step of the batch replaces a file that already exists
\* at an output path (overwriting is never requested); in particular two
\* items whose sanitized texts coincide do not overwrite each other's
\* output.
C12_NeverOverwrites ==
    [][\A q \in AllPaths : disk[q].st # "none" => disk'[q] = disk[q]]_vars

\* C12 witness: two items of one category with different texts and the same
\* sanitized text were both composed with success, the list returned names
\* the one path twice and the file there is the second item's.
C12_Witness ==
    /\ b_pc = "done"
    /\ Len(data[1]) = 2
    /\ data[1][1].text # data[1][2].text
    /\ OutputPath(1, data[1][1].text) = OutputPath(1, data[1][2].text)
    /\ Len(calls) = 2
    /\ calls[1].ret /\ calls[2].ret
    /\ result_clips = << OutputPath(1, data[1][1].text),
                         OutputPath(1, data[1][1].text) >>
    /\ disk[OutputPath(1, data[1][1].text)].by = <<1, 2>>

\* The items the batch has to compose, in batch order, and the failed ones.
Eligible ==
    { <<c, n>> \in (1..3) \X (1..2) :
        n <= Len(data[c]) /\ data[c][n].keys /\ data[c][n].audio }
CallsOf(it) == { j \in 1..Len(calls) : calls[j].item = it }
RECURSIVE FailedOf(_)
FailedOf(cs) ==
    IF cs = << >> THEN << >>
    ELSE IF Head(cs).ret THEN FailedOf(Tail(cs))
    ELSE <<Head(cs).item>> \o FailedOf(Tail(cs))

\* C13 as stated: when the batch ends, every item with its keys and audio
\* was attempted exactly once, whatever failed before it, and the batch
\* holds the list of the failed items.
C13_FailuresListed ==
    b_pc = "done" =>
        /\ \A it \in Eligible : Cardinality(CallsOf(it)) = 1
        /\ FailureList = FailedOf(calls)

\* C13 witness: the first job of the batch failed, the jobs of the two
\* later categories were still run, once each, and the batch has ended.
C13_Witness ==
    /\ b_pc = "done"
    /\ Len(calls) = 3
    /\ ~calls[1].ret /\ calls[2].ret /\ calls[3].ret
    /\ \A it \in Eligible : Cardinality(CallsOf(it)) = 1
    /\ Len(result_clips) = 2

(***************************************************************************)
(* Properties of the side-sequence generator.                              *)
(***************************************************************************)
\* C14 as stated: for a pool of at least 6 folders, whatever the draws, the
\* summed duration of the returned sequence is at least target_duration.
C14_DurationReachesTarget ==
    (g_pc = "returned" /\ Len(folders) >= 6) =>
        sequence_duration >= target_duration

\* C14 witness: a call on 6 folders has returned a sequence of two rounds
\* that is shorter than the target.
C14_Witness ==
    /\ g_pc = "returned"
    /\ Len(folders) = 6
    /\ rounds_done = 2
    /\ sequence_duration < target_duration

RoundDrawn == round_tiers # << >>
ClipsFrom(f) ==
    { i \in 1..Len(round_sequence) : round_sequence[i][1] = f }

\* C15: in every round, whatever the draws, no folder is drawn twice, be it
\* in one tier or in two, and no folder contributes more than 2 clips.
C15_RoundUsesFolderOnce ==
    RoundDrawn =>
        /\ \A k \in 1..3 :
              Cardinality(Range(round_tiers[k])) = Len(round_tiers[k])
        /\ \A j \in 1..3 : \A k \in 1..3 :
              j # k => Range(round_tiers[j]) \cap Range(round_tiers[k]) = {}
        /\ \A f \in DOMAIN folders : Cardinality(ClipsFrom(f)) <= 2

\* C15 witness: a later round on 6 folders that drew in all three tiers
\* and took two clips from every folder.
C15_Witness ==
    /\ RoundDrawn
    /\ g_pc = "extend"
    /\ Len(folders) = 6
    /\ Len(round_tiers[1]) = 1 /\ Len(round_tiers[2]) = 2 /\ Len(round_tiers[3]) = 3
    /\ \A f \in DOMAIN folders : Cardinality(ClipsFrom(f)) = 2

\* C16 (as amended): the number of rounds in the returned sequence, the
\* first one included, is floor(target_duration / one_round_duration) + 1;
\* that is the ceiling of the quotient when the target is no multiple of
\* the first round's duration, and one more than it when it is.
C16_RoundsAreFloorPlusOne ==
    g_pc = "returned" =>
        /\ rounds_done = (target_duration \div one_round_duration) + 1
        /\ target_duration % one_round_duration # 0 =>
              rounds_done * one_round_duration >= target_duration
              /\ (rounds_done - 1) * one_round_duration < target_duration
        /\ target_duration % one_round_duration = 0 =>
              (rounds_done - 1) * one_round_duration = target_duration

\* C16 witness: a target of exactly two first rounds was answered with
\* three rounds.
C16_Witness ==
    /\ g_pc = "returned"
    /\ target_duration = 2 * one_round_duration
    /\ rounds_done = 3

\* C16 as stated: the number of rounds is ceil(target / first round), also
\* when the target is an exact multiple of the first round's duration.
C16_Original ==
    g_pc = "returned" =>
        /\ rounds_done * one_round_duration >= target_duration
        /\ (rounds_done - 1) * one_round_duration < target_duration

NoUsableClip ==
    \A f \in DOMAIN folders : ~folders[f].has1 /\ ~folders[f].has2

\* C17: a call on a pool without folders, or without any clip in its
\* folders, never returns (so never an empty sequence), never enters the
\* loop of further rounds, and ends by raising.
C17_EmptyPoolRaises ==
    /\ [](NoUsableClip => (g_pc # "returned" /\ g_pc # "more" /\ g_pc # "extend"))
    /\ ((NoUsableClip /\ g_pc = "list") ~> (g_pc = "raised"))

\* C17 witness: a call on folders that hold no clip has raised at the
\* division by the empty first round's duration.
C17_Witness ==
    /\ folders # << >>
    /\ NoUsableClip
    /\ g_pc = "raised"
    /\ one_round_duration = 0
    /\ sequence_len = 0

(***************************************************************************)
(* Properties of the compositor.  ffmpeg's between(t, lo, hi) is 1 for     *)
(* lo <= t <= hi; an overlay keeps showing the last frame of an input that *)
(* has ended, so an enabled side clip is a visible one.                    *)
(***************************************************************************)
Enabled(f, t) == f.lo = -1 \/ (f.lo <= t /\ t <= f.hi)

\* The overlay that draws side clip i (counted from 0), if it was added.
SideAdded(i) ==
    \E j \in 1..Len(filter_complex) :
        filter_complex[j].kind = "overlay" /\ filter_complex[j].top = <<"side", i>>
SideOverlay(i) ==
    filter_complex[CHOOSE j \in 1..Len(filter_complex) :
        filter_complex[j].kind = "overlay" /\ filter_complex[j].top = <<"side", i>>]
SideOverlayAt(i) ==
    CHOOSE j \in 1..Len(filter_complex) :
        filter_complex[j].kind = "overlay" /\ filter_complex[j].top = <<"side", i>>

\* cursor_0 = 0, cursor_(i+1) = cursor_i + duration_i
RECURSIVE Cursor(_)
Cursor(i) == IF i = 0 THEN 0 ELSE Cursor(i - 1) + side_videos[i]

Instants == 0..(Cursor(Len(side_videos)) + 1)
SideClips == { i \in 0..(Len(side_videos) - 1) : SideAdded(i) }
WindowEnd(i) ==
    IF variant = "processor" THEN Min2(Cursor(i + 1), main_duration)
    ELSE Cursor(i + 1)

\* C18 (as amended): side clip i is enabled exactly during the closed window
\* [cursor_i, cursor_i + duration_i] (in video_processor.py cut at the end
\* of the main video, clips whose cursor lies at or after that end being
\* left out).  Two clips are enabled together only at the instant where the
\* window of one ends and the window of the next begins, and there the
\* later clip is drawn over the earlier; at every other instant at most one
\* side clip is enabled.  The windows follow each other in sequence order.
C18_SideWindowsClosed ==
    /\ \A i \in SideClips : \A t \in Instants :
          Enabled(SideOverlay(i), t) <=> (Cursor(i) <= t /\ t <= WindowEnd(i))
    /\ \A i \in SideClips : \A j \in SideClips : \A t \in Instants :
          (i < j /\ Enabled(SideOverlay(i), t) /\ Enabled(SideOverlay(j), t)) =>
              /\ j = i + 1
              /\ t = Cursor(j)
              /\ SideOverlayAt(i) < SideOverlayAt(j)
    /\ \A i \in SideClips : \A j \in SideClips :
          i < j => SideOverlay(i).lo < SideOverlay(j).lo
    /\ (k_pc = "done" /\ variant = "combiner") =>
          SideClips = 0..(Len(side_videos) - 1)
    /\ (k_pc = "done" /\ variant = "processor") =>
          SideClips = { i \in 0..(Len(side_videos) - 1) : Cursor(i) < main_duration }

\* C18 witness: the graph of video_combiner.py is built for three side
\* clips, and the first two are both enabled at the end of the first.
C18_Witness ==
    /\ k_pc = "done"
    /\ variant = "combiner"
    /\ Len(side_videos) = 3
    /\ SideClips = {0, 1, 2}
    /\ Enabled(SideOverlay(0), Cursor(1))
    /\ Enabled(SideOverlay(1), Cursor(1))

\* C18 as stated: side clip i is enabled exactly during the half-open
\* window [cursor_i, cursor_i + duration_i), so at most one side clip is
\* enabled at any instant.
C18_Original ==
    /\ \A i \in SideClips : \A t \in Instants :
          Enabled(SideOverlay(i), t) <=> (Cursor(i) <= t /\ t < Cursor(i + 1))
    /\ \A t \in Instants :
          Cardinality({ i \in SideClips : Enabled(SideOverlay(i), t) }) <= 1

\* What a label shows, bottom layer first.
RECURSIVE Stack(_, _)
Stack(fc, l) ==
    IF l[1] = "in" THEN <<l>>
    ELSE LET f == fc[CHOOSE j \in 1..Len(fc) : fc[j].out = l]
         IN CASE f.kind = "overlay" -> Stack(fc, f.base) \o Stack(fc, f.top)
              [] f.kind = "ass" -> Append(Stack(fc, f.base), <<"ass", 0>>)
              [] OTHER -> Stack(fc, f.base)

TitleOverlayOf(fc) ==
    fc[CHOOSE j \in 1..Len(fc) :
          fc[j].kind = "overlay" /\ fc[j].out[1] = "bg_text"]

ExpectedStack ==
    <<Input(0), Input(1)>>
    \o [i \in 1..Len(side_videos) |-> Input(i + 1)]
    \o <<Input(Len(side_videos) + 2)>>
    \o (IF merged_ass THEN << <<"ass", 0>> >> ELSE << >>)

\* C20 (as amended): the graph built by combine_videos of video_combiner.py
\* stacks, bottom to top, the background, the main video, the side clips in
\* sequence order, the title image and, when there is a caption track, the
\* captions last; the title overlay is enabled during the closed window
\* [0, titleDuration].
C20_LayerOrder ==
    (k_pc = "done" /\ variant = "combiner") =>
        /\ Stack(filter_complex, <<"final", 0>>) = ExpectedStack
        /\ \A t \in 0..(text_settings.duration + 1) :
              Enabled(TitleOverlayOf(filter_complex), t)
                  <=> t <= text_settings.duration

\* C20 witness: a finished graph with three side clips, a faded title and
\* a caption track: seven layers, the title sixth.
C20_Witness ==
    /\ k_pc = "done"
    /\ variant = "combiner"
    /\ Len(side_videos) = 3
    /\ merged_ass
    /\ text_settings.fade_out > 0
    /\ Len(Stack(filter_complex, <<"final", 0>>)) = 7
    /\ Stack(filter_complex, <<"final", 0>>)[6] = Input(5)

\* C20 as stated: the same order of layers, the title overlay being enabled
\* only during the half-open window [0, titleDuration).
C20_Original ==
    (k_pc = "done" /\ variant = "combiner") =>
        /\ Stack(filter_complex, <<"final", 0>>) = ExpectedStack
        /\ \A t \in 0..(text_settings.duration + 1) :
              Enabled(TitleOverlayOf(filter_complex), t)
                  <=> t < text_settings.duration

(***************************************************************************)
(* Properties of the caption track.  Times are compared at the resolution  *)
(* of the ASS file, the centisecond; the threshold t0 is 4 s.              *)
(***************************************************************************)
\* The lines a step adds to the file.
NewLines == SubSeq(events', Len(events) + 1, Len(events'))

\* The intervals, in centiseconds, of the lines of one visibility.
IntervalsOf(ls, is_hidden) ==
    { <<ParseTimeToSeconds(ls[j].start), ParseTimeToSeconds(ls[j].end)>> :
          j \in { k \in 1..Len(ls) : ls[k].hidden = is_hidden } }

\* C19: a caption [start, end) with start < t0 < end is written as a hidden
\* event [start, t0) and an opaque event [t0, end); a caption entirely
\* before t0 is written in the hidden style only, a caption at or after t0
\* in the opaque style only (an event being the Chinese line, the English
\* box and the English text of one interval).
C19_SplitAtThreshold ==
    [][ (s_i' = s_i + 1 /\ blocks[s_i'].text) =>
          LET start == blocks[s_i'].start \div 10
              end == blocks[s_i'].end \div 10
              t0 == 400
              hidden == IntervalsOf(NewLines, TRUE)
              opaque == IntervalsOf(NewLines, FALSE)
          IN /\ (start < t0 /\ t0 < end) =>
                    /\ hidden = { <<start, t0>> }
                    /\ opaque = { <<t0, end>> }
                    /\ Len(NewLines) = 6
             /\ (start < t0 /\ end <= t0) =>
                    /\ Cardinality(hidden) = 1
                    /\ opaque = {}
                    /\ Len(NewLines) = 3
             /\ start >= t0 =>
                    /\ hidden = {}
                    /\ opaque = { <<start, end>> }
                    /\ Len(NewLines) = 3 ]_vars

\* The caption [2 s, 10 s) has been split at 4 s.
C19_Witness ==
    /\ s_pc = "done"
    /\ Len(blocks) = 1
    /\ blocks[1] = [start |-> 2000, end |-> 10000, text |-> TRUE]
    /\ Len(events) = 6
    /\ IntervalsOf(events, TRUE) = { <<200, 400>> }
    /\ IntervalsOf(events, FALSE) = { <<400, 1000>> }

\* The caption [2 s, 4.02 s) has been split at 4 s, and its opaque event
\* ends at 4.01 s.
C19_FloatWitness ==
    /\ s_pc = "done"
    /\ Len(blocks) = 1
    /\ blocks[1] = [start |-> 2000, end |-> 4020, text |-> TRUE]
    /\ IntervalsOf(events, FALSE) = { <<400, 401>> }

(***************************************************************************)
(* Properties of the analysis pipeline.                                    *)
(***************************************************************************)
\* The text occurs in some line of the transcript.
Locatable(text) == \E i \in 1..Len(srt) : IsIn(Lower(text), Lower(srt[i].text))

\* C21: every item the analysis service returned is in the saved summary,
\* in its category and at its place; an item whose text is in no line of
\* the transcript is there with verified = false and an explanation.
C21_EveryItemKept ==
    y_pc = "done" =>
        \A c \in 1..3 :
            /\ Len(saved[c]) = Len(content_json[c])
            /\ \A i \in 1..Len(content_json[c]) :
                  /\ Lower(saved[c][i].text) = Lower(content_json[c][i].text)
                  /\ ~Locatable(content_json[c][i].text) =>
                        /\ saved[c][i].verified = FALSE
                        /\ saved[c][i].error # ""

\* The live analyzer has saved the summary of an analysis that returned
\* "a" and then "d", which is in no line.
C21_Witness ==
    /\ y_pc = "done"
    /\ analyzer = "deepseek"
    /\ Len(content_json[1]) = 2
    /\ content_json[1][1].text = <<"a">>
    /\ content_json[1][2].text = <<"d">>
    /\ Locatable(<<"a">>)

\* The window the item names, of the windows of the transcript.
NamedWindow(item) == TimeRanges(TotalDuration(srt))[item.segment]

\* C27: an item is saved with verified = true only if the start time copied
\* onto it lies in the window the item names, whichever window that is; an
\* item whose text is in lines of other windows only is saved with
\* verified = false.
C27_VerifiedInItsWindow ==
    (y_pc = "done" /\ analyzer # "deepseek") =>
        \A c \in 1..3 : \A i \in 1..Len(saved[c]) :
            LET item == saved[c][i]
                here == { k \in 1..Len(srt) :
                            /\ IsIn(Lower(item.text), Lower(srt[k].text))
                            /\ InRange(NamedWindow(item), srt[k].start_time) }
            IN /\ item.verified = TRUE => InRange(NamedWindow(item), item.start_time)
               /\ here = {} => item.verified = FALSE

\* An item that names window 3 has been saved as verified with the start
\* time of a line of window 1.
C27_Witness ==
    /\ y_pc = "done"
    /\ analyzer = "deepseek1"
    /\ \E i \in 1..Len(saved[1]) :
          /\ saved[1][i].segment = 3
          /\ saved[1][i].verified = TRUE
          /\ saved[1][i].start_time = 1000

(***************************************************************************)
(* Properties of the used-history.                                         *)
(***************************************************************************)
\* What load_history would return now.
OnDisk == IF history_file.st = "json" THEN history_file.h ELSE EmptyHistory

\* C22: load, modify and save of the history are serialized.  When two
\* processes have each saved their first selection, the folder history
\* holds the folder of both; and a process selects from the history that is
\* on disk at that moment, not from one that has been overwritten since the
\* process read it.
C22_HistorySerialized ==
    /\ [] ( (\A p \in Procs : h_pc[p] = <<"subtitle", "">> /\ runs[p] = 1) =>
              \A p \in Procs : picked[p].name \in Range(history_file.h.folders) )
    /\ [][ \A p \in Procs :
              (h_pc[p][2] = "select" /\ h_pc'[p][2] = "write") =>
                  /\ history_file.st # "partial"
                  /\ history[p] = OnDisk ]_vars

\* Both processes have saved their first selection, and the folder of
\* process 1 is not in the history.
C22_Witness ==
    /\ \A p \in Procs : h_pc[p] = <<"subtitle", "">> /\ runs[p] = 1
    /\ history_file.st = "json"
    /\ picked[1].name \notin Range(history_file.h.folders)
    /\ picked[2].name \in Range(history_file.h.folders)

\* C29: in a run of run.py the video that is synthesized is the video whose
\* name was selected first and whose subtitles were processed.
C29_SynthesizesSelectedVideo ==
    \A p \in Procs :
        h_pc[p] = <<"done", "">> =>
            /\ picked[p].subtitle = picked[p].name
            /\ picked[p].synth = picked[p].name

\* A run has ended whose subtitles are those of folder A and whose
\* synthesized video is of folder B.
C29_Witness ==
    /\ h_pc[1] = <<"done", "">>
    /\ picked[1].name = "A"
    /\ picked[1].subtitle = "A"
    /\ picked[1].synth = "B"

\* The step is a selection by process p that returns folder d.
Selects(p, d) ==
    /\ h_pc[p][2] = "select"
    /\ h_pc'[p][2] = "write"
    /\ d = (IF h_pc[p][1] = "name" THEN picked'[p].name ELSE picked'[p].synth)

\* C30: a selection returns a folder of the folder history only if every
\* folder of the pool is in it, and then the folder history it saves is the
\* new entry alone; every list of the saved history holds the last 10
\* entries, at most, of the list before the save and the new entry.
C30_RecentFoldersAvoided ==
    [][ \A d \in DOMAIN pool :
          Selects(1, d) =>
              LET old == OnDisk
                  new == history'[1]
                  all == \A e \in DOMAIN pool : e \in Range(old.folders)
              IN /\ d \in Range(old.folders) => all
                 /\ all => new.folders = <<d>>
                 /\ ~all => \/ /\ Len(old.folders) < 10
                               /\ new.folders = Append(old.folders, d)
                            \/ /\ Len(old.folders) >= 10
                               /\ new.folders = Append(Tail(old.folders), d)
                 /\ Len(new.folders) <= 10
                 /\ Len(new.videos) <= 10
                 /\ new.videos[Len(new.videos)] \in pool[d] ]_vars

\* Two runs on the pool of A and B have ended, starting from an empty
\* history: the third selection found both folders recorded, the history
\* was reset, and it holds the third and the fourth selection.
C30_Witness ==
    /\ DOMAIN pool = {"A", "B"}
    /\ runs[1] = 2
    /\ h_pc[1] = <<"done", "">>
    /\ picked[1].synth = "B"
    /\ history_file.st = "json"
    /\ history_file.h.folders = <<"A", "B">>

C24_NoPartialOutput ==
    (c_pc = "done" /\ result = "False") => fs["output"].st = "none"

\* _create_enzh_version has returned False after its last ffmpeg run, the
\* mux to the output path, exited non-zero with a part of the file written.
C24_Witness ==
    /\ version = "enzh"
    /\ c_pc = "done"
    /\ result = "False"
    /\ fs["output"].st = "partial"
    /\ ~Exists(fs["temp_blur"])
    /\ ~Exists(fs["temp_audio"])

(***************************************************************************)
(* Containment of the caption events.  The caption times are milliseconds, *)
(* the event times centiseconds.                                           *)
(***************************************************************************)
\* C28: every event written for a caption [start, end) lies in [start, end):
\* it does not start before the caption starts and does not end after the
\* caption ends, whichever side of 4 s the caption is on.
C28_EventsInsideCaption ==
    [][ (s_i' = s_i + 1 /\ blocks[s_i'].text) =>
          \A j \in 1..Len(NewLines) :
              /\ ParseTimeToSeconds(NewLines[j].start) * 10 >= blocks[s_i'].start
              /\ ParseTimeToSeconds(NewLines[j].end) * 10 <= blocks[s_i'].end
              /\ ParseTimeToSeconds(NewLines[j].start)
                     < ParseTimeToSeconds(NewLines[j].end) ]_vars

\* The caption [2 s, 3.99 s), over before 4 s, has been written as hidden
\* events that last until 4 s.
C28_Witness ==
    /\ s_pc = "done"
    /\ Len(blocks) = 1
    /\ blocks[1] = [start |-> 2000, end |-> 3990, text |-> TRUE]
    /\ Len(events) = 3
    /\ IntervalsOf(events, TRUE) = { <<200, 400>> }
    /\ IntervalsOf(events, FALSE) = {}

(***************************************************************************)
(* The shape of one round of the side sequence.  A round is inspected      *)
(* while it is held, between generate_one_round's return and its append to *)
(* the sequence.                                                           *)
(***************************************************************************)
RoundHeld == g_pc \in {"count", "extend"}

\* The places of a clip in the round.
PlacesOf(folder, clip) ==
    { j \in 1..Len(round_sequence) : round_sequence[j] = <<folder, clip>> }

\* The folder contributes its 1.mp4 once and its 2.mp4 once, 1.mp4 first.
LeadThenFollow(folder) ==
    /\ Cardinality(PlacesOf(folder, 1)) = 1
    /\ Cardinality(PlacesOf(folder, 2)) = 1
    /\ \A i \in PlacesOf(folder, 1) : \A j \in PlacesOf(folder, 2) : i < j

AllHoldBoth == \A i \in 1..Len(folders) : folders[i].has1 /\ folders[i].has2

\* The groups have 1, 2 (if 2 folders are left) and 3 (if 3 are left)
\* folders.
TierSizes ==
    LET n == Len(folders)
    IN /\ Len(round_tiers[1]) = 1
       /\ Len(round_tiers[2]) = (IF n - 1 >= 2 THEN 2 ELSE 0)
       /\ Len(round_tiers[3]) = (IF n - 1 - Len(round_tiers[2]) >= 3 THEN 3 ELSE 0)

\* 12 clips for n >= 6, 6 clips for 3 <= n <= 5, 2 clips for n in {1, 2}.
ClipCounts ==
    LET n == Len(folders)
    IN AllHoldBoth =>
          Len(round_sequence) = (IF n >= 6 THEN 12 ELSE IF n >= 3 THEN 6 ELSE 2)

\* C26: one round draws 1 folder, then 2 folders if at least 2 remain, then
\* 3 folders if at least 3 remain.  A drawn folder that holds both clips
\* contributes its lead clip and its follow clip, the lead before the
\* follow; a drawn folder that lacks a clip contributes nothing in the first
\* group and the clip it holds, if any, in the second and third group.
\* With n folders that all hold both clips a round has 12 clips for n >= 6,
\* 6 clips for 3 <= n <= 5 and 2 clips for n in {1, 2}.
C26_RoundShape ==
    RoundHeld =>
        /\ TierSizes
        /\ ClipCounts
        /\ \A g \in 1..3 : \A k \in 1..Len(round_tiers[g]) :
              LET f == round_tiers[g][k]
              IN IF folders[f].has1 /\ folders[f].has2
                 THEN LeadThenFollow(f)
                 ELSE /\ Cardinality(PlacesOf(f, 1))
                            = (IF g > 1 /\ folders[f].has1 THEN 1 ELSE 0)
                      /\ Cardinality(PlacesOf(f, 2))
                            = (IF g > 1 /\ folders[f].has2 THEN 1 ELSE 0)

\* A round of 7 folders that all hold both clips: 6 of them drawn, 12 clips,
\* the second group as lead, lead, follow, follow.
C26_Witness ==
    /\ g_pc = "extend"
    /\ Len(folders) = 7
    /\ AllHoldBoth
    /\ round_tiers = << <<7>>, <<2, 5>>, <<1, 6, 3>> >>
    /\ Len(round_sequence) = 12
    /\ SubSeq(round_sequence, 3, 6) = << <<2, 1>>, <<5, 1>>, <<2, 2>>, <<5, 2>> >>

\* C26 as stated: every drawn folder contributes the lead clip and the
\* follow clip it holds, whatever the group it was drawn in.
C26_EveryDrawnFolderContributes ==
    RoundHeld =>
        /\ TierSizes
        /\ ClipCounts
        /\ \A g \in 1..3 : \A k \in 1..Len(round_tiers[g]) :
              LET f == round_tiers[g][k]
              IN /\ folders[f].has1 => Cardinality(PlacesOf(f, 1)) = 1
                 /\ folders[f].has2 => Cardinality(PlacesOf(f, 2)) = 1
                 /\ \A i \in PlacesOf(f, 1) : \A j \in PlacesOf(f, 2) : i < j

(***************************************************************************)
(* Properties of two clip jobs side by side.                               *)
(***************************************************************************)
\* The job has extracted its frame and not yet turned it into a video.
UsesFrame(k) ==
    \/ job_pc[k] = "blur"
    \/ job_pc[k] = "frame_check" /\ job_rc[k] = 0

\* The job has made its freeze video and not yet muxed it.
UsesBlurVideo(k) ==
    \/ job_pc[k] = "mux"
    \/ job_pc[k] = "blur_check" /\ job_rc[k] = 0

\* C25: under every interleaving of the steps of two clip jobs of one
\* source video, the output of each job is built from the frame and the
\* freeze video that job made, and no step of a job deletes or overwrites
\* the frame or the freeze video the other job is still using.
C25_JobsDoNotInterfere ==
    /\ [](\A j \in Jobs : outputs[j] # NoVideo => outputs[j] = <<j, j>>)
    /\ [][ \A j \in Jobs : \A k \in Jobs \ {j} :
              job_pc'[j] # job_pc[j] =>
                 /\ UsesFrame(k) => temp_frame' = temp_frame
                 /\ UsesBlurVideo(k) => temp_blur_video' = temp_blur_video ]_vars

\* Both jobs have returned True, and the output of job 1 shows the frame
\* of job 2.
C25_Witness ==
    /\ \A j \in Jobs : job_pc[j] = "done" /\ job_ret[j] = "True"
    /\ outputs[1] = <<1, 2>>
    /\ outputs[2][2] = 2

====
